---- MODULE Spec2Model ----
(***************************************************************************)
(* A model of the PASA job-application pipeline: the fit scorer            *)
(* (src/src/nlp/job_fit.py), the context enricher                          *)
(* (src/src/enrichment/enrichment.py, llm.py), and the orchestrator loop   *)
(* (src/src/orchestrator.py).                                              *)
(*                                                                         *)
(* The specifications share the module's variables:                        *)
(*   SpecScore    _normalize_score applied to one raw score value          *)
(*   SpecFit      evaluate_job_fit applied to one answer of the model      *)
(*   SpecEnrich   enrich_user_profile / enrich_company, called by the      *)
(*                orchestrator's gate or by run_enrichment_once            *)
(*   Spec         one run of orchestrator.main over a parsed message list  *)
(*   SpecFair     Spec with weak fairness on the run's steps               *)
(*   SpecDetect   is_job_post / parse_job applied to one message body      *)
(*   SpecParse    parse_whatsapp_chat applied to one chat export           *)
(*   SpecDescribe the job description built for one message and sent to    *)
(*                the scoring prompt                                       *)
(***************************************************************************)
EXTENDS Integers, Sequences, FiniteSets, TLC

(***************************************************************************)
(* Text is modelled as a sequence of one-character strings.                *)
(***************************************************************************)

\* Longest score string drawn as an input.
MaxStrLen == 4

\* Decimal places kept by the fixed-point image of a Python float: a float
\* v is the integer v * 10^FracDigits. A string of MaxStrLen characters has
\* at most MaxStrLen - 1 decimals.
FracDigits == MaxStrLen - 1

RECURSIVE Pow10(_)
Pow10(k) == IF k = 0 THEN 1 ELSE 10 * Pow10(k - 1)

Unit == Pow10(FracDigits)

Digits == {"0", "1", "5", "8"}

ScoreAlphabet == Digits \cup {".", "%", "-", "x", " "}

DigitVal(c) ==
    CASE c = "0" -> 0 [] c = "1" -> 1 [] c = "2" -> 2 [] c = "3" -> 3
      [] c = "4" -> 4 [] c = "5" -> 5 [] c = "6" -> 6 [] c = "7" -> 7
      [] c = "8" -> 8 [] c = "9" -> 9 [] OTHER -> 0

IsDigit(c) == c \in {"0", "1", "2", "3", "4", "5", "6", "7", "8", "9"}

RECURSIVE StrsUpTo(_)
StrsUpTo(n) ==
    IF n = 0 THEN {<<>>}
    ELSE LET shorter == StrsUpTo(n - 1)
         IN  shorter \cup {Append(s, c) : s \in shorter, c \in ScoreAlphabet}

\* str.strip(): leading and trailing whitespace removed.
RECURSIVE LStrip(_)
LStrip(s) == IF s # <<>> /\ Head(s) = " " THEN LStrip(Tail(s)) ELSE s

RECURSIVE RStrip(_)
RStrip(s) ==
    IF s # <<>> /\ s[Len(s)] = " " THEN RStrip(SubSeq(s, 1, Len(s) - 1)) ELSE s

Strip(s) == RStrip(LStrip(s))

\* str.replace("%", ""): every percent sign removed.
RECURSIVE RemovePercent(_)
RemovePercent(s) ==
    IF s = <<>> THEN <<>>
    ELSE IF Head(s) = "%" THEN RemovePercent(Tail(s))
    ELSE <<Head(s)>> \o RemovePercent(Tail(s))

\* First index >= i of s that holds no digit (Len(s) + 1 when the digits
\* run to the end).
RECURSIVE DigitRunEnd(_, _)
DigitRunEnd(s, i) ==
    IF i <= Len(s) /\ IsDigit(s[i]) THEN DigitRunEnd(s, i + 1) ELSE i

\* re [-+]?[0-9]*\.?[0-9]+ anchored at i: the index after the match, or 0
\* when nothing matches at i. The sign is optional, the integer digits are
\* greedy, and a dot is taken only when a digit follows it.
NumberMatchEnd(s, i) ==
    LET j == IF i <= Len(s) /\ s[i] \in {"-", "+"} THEN i + 1 ELSE i
        k == DigitRunEnd(s, j)
    IN  IF k + 1 <= Len(s) /\ s[k] = "." /\ IsDigit(s[k + 1])
        THEN DigitRunEnd(s, k + 1)
        ELSE IF k > j THEN k ELSE 0

\* re.search: the leftmost index at which the pattern matches, 0 if none.
RECURSIVE NumberSearchFrom(_, _)
NumberSearchFrom(s, i) ==
    IF i > Len(s) THEN 0
    ELSE IF NumberMatchEnd(s, i) # 0 THEN i
    ELSE NumberSearchFrom(s, i + 1)

RECURSIVE DigitsValue(_)
DigitsValue(s) ==
    IF s = <<>> THEN 0
    ELSE 10 * DigitsValue(SubSeq(s, 1, Len(s) - 1)) + DigitVal(s[Len(s)])

\* float(text) of a matched number, as a fixed-point integer.
FloatOf(m) ==
    LET neg  == m # <<>> /\ Head(m) = "-"
        body == IF m # <<>> /\ Head(m) \in {"-", "+"} THEN Tail(m) ELSE m
        k    == DigitRunEnd(body, 1)
        ip   == SubSeq(body, 1, k - 1)
        fp   == IF k <= Len(body) THEN SubSeq(body, k + 1, Len(body)) ELSE <<>>
        mag  == DigitsValue(ip) * Unit
                + DigitsValue(fp) * Pow10(FracDigits - Len(fp))
    IN  IF neg THEN 0 - mag ELSE mag

\* The fractions h/100 whose double, multiplied by 100, falls just below h
\* (0.29 * 100 = 28.999999999999996), so that int() truncates to h - 1.
FloatTruncLoss == {29, 57, 58}

\* int(v * 100) for a float 0 <= v <= 1.
FractionToPercent(u) ==
    LET exact == (u * 100) \div Unit
    IN  IF (u * 100) % Unit = 0 /\ exact \in FloatTruncLoss
        THEN exact - 1 ELSE exact

ScoreMin == 0
ScoreMax == 100

ClampInt(n) ==
    IF n < ScoreMin THEN ScoreMin ELSE IF n > ScoreMax THEN ScoreMax ELSE n

\* int(max(0, min(100, v))) for a float v.
ClampFloat(u) ==
    IF u < ScoreMin * Unit THEN ScoreMin
    ELSE IF u > ScoreMax * Unit THEN ScoreMax
    ELSE u \div Unit

NormalizeFloat(u) ==
    IF 0 <= u /\ u <= Unit THEN FractionToPercent(u) ELSE ClampFloat(u)

NormalizeStr(cs) ==
    LET s == RemovePercent(Strip(cs))
        i == NumberSearchFrom(s, 1)
    IN  IF i = 0 THEN 0
        ELSE NormalizeFloat(FloatOf(SubSeq(s, i, NumberMatchEnd(s, i) - 1)))

(***************************************************************************)
(* A JSON value as json.loads leaves it: t is its Python type, n the value *)
(* of an int or bool (or of a float, in fixed point), cs the characters of *)
(* a string. "absent" marks a key the object does not hold.                *)
(***************************************************************************)
Raw(t, n, cs) == [t |-> t, n |-> n, cs |-> cs]

NoneRaw == Raw("none", 0, <<>>)
AbsentRaw == Raw("absent", 0, <<>>)
IntRaw(n) == Raw("int", n, <<>>)
FloatRaw(hundredths) == Raw("float", hundredths * (Unit \div 100), <<>>)
StrRaw(cs) == Raw("str", 0, cs)

NormalizeScoreNoClamp(raw) ==
    CASE raw.t \in {"none", "absent"} -> 0
      [] raw.t \in {"int", "bool"}   -> raw.n
      [] raw.t = "float"             -> NormalizeFloat(raw.n)
      [] raw.t \in {"nan", "inf"}    -> ScoreMax
      [] raw.t = "str"               -> NormalizeStr(raw.cs)
      [] OTHER                       -> 0

\* _normalize_score. A bool is an int to isinstance; NaN and Infinity fail
\* 0 <= raw <= 1 and min(100, raw) is 100; -Infinity, lists and objects
\* end at 0.
NormalizeScore(raw) ==
    CASE raw.t \in {"none", "absent"} -> 0
      [] raw.t \in {"int", "bool"}   -> ClampInt(raw.n)
      [] raw.t = "float"             -> NormalizeFloat(raw.n)
      [] raw.t \in {"nan", "inf"}    -> ScoreMax
      [] raw.t = "str"               -> NormalizeStr(raw.cs)
      [] OTHER                       -> 0

\* The raw score values drawn as inputs.
IntSamples == (0 - 3) .. 103

FloatSamples ==
    {0 - 150, 0 - 1, 0, 1, 29, 50, 57, 58, 85, 99, 100, 101, 150, 5000, 8550,
     9999, 10000, 10001, 15000}

OtherRaws ==
    {NoneRaw, AbsentRaw, Raw("bool", 0, <<>>), Raw("bool", 1, <<>>),
     Raw("nan", 0, <<>>), Raw("inf", 0, <<>>), Raw("ninf", 0, <<>>),
     Raw("list_empty", 0, <<>>), Raw("list_strs", 1, <<>>), Raw("dict", 0, <<>>)}

ScoreRaws ==
    {IntRaw(n) : n \in IntSamples} \cup {FloatRaw(h) : h \in FloatSamples}
    \cup {StrRaw(cs) : cs \in StrsUpTo(MaxStrLen)} \cup OtherRaws

(***************************************************************************)
(* The model's response (src/src/nlp/job_fit.py, src/src/enrichment/llm.py)*)
(* is a text: a sequence of segments. "ws" is whitespace, "txt" prose      *)
(* holding no brace, "lb" and "rb" a stray opening and closing brace, and  *)
(* "val" the text of one complete JSON value v.                            *)
(***************************************************************************)

\* str.lower() on the letters the sampled strings use.
LowerChar(c) ==
    CASE c = "A" -> "a" [] c = "B" -> "b" [] c = "C" -> "c" [] c = "D" -> "d"
      [] c = "E" -> "e" [] c = "F" -> "f" [] c = "G" -> "g" [] c = "H" -> "h"
      [] c = "I" -> "i" [] c = "J" -> "j" [] c = "K" -> "k" [] c = "L" -> "l"
      [] c = "M" -> "m" [] c = "N" -> "n" [] c = "O" -> "o" [] c = "P" -> "p"
      [] c = "Q" -> "q" [] c = "R" -> "r" [] c = "S" -> "s" [] c = "T" -> "t"
      [] c = "U" -> "u" [] c = "V" -> "v" [] c = "W" -> "w" [] c = "X" -> "x"
      [] c = "Y" -> "y" [] c = "Z" -> "z"
      [] OTHER -> c

Lower(cs) == [i \in 1 .. Len(cs) |-> LowerChar(cs[i])]

\* needle in haystack, on strings.
Contains(haystack, needle) ==
    \E i \in 1 .. (Len(haystack) - Len(needle) + 1) :
        SubSeq(haystack, i, i + Len(needle) - 1) = needle

LowStr == <<"l", "o", "w">>
MediumStr == <<"m", "e", "d", "i", "u", "m">>
HighStr == <<"h", "i", "g", "h">>
BriefStr == <<"b", "r", "i", "e", "f">>
DetailedStr == <<"d", "e", "t", "a", "i", "l", "e", "d">>
BulletedStr == <<"b", "u", "l", "l", "e", "t", "e", "d">>
BulletStr == <<"b", "u", "l", "l", "e", "t">>
ShortStr == <<"s", "h", "o", "r", "t">>

\* str(x) of a value that is no string, as far as the substring tests read
\* it: "None", "True", a number, a list.
StrOf(raw) ==
    CASE raw.t = "str"  -> raw.cs
      [] raw.t = "none" -> <<"N", "o", "n", "e">>
      [] raw.t = "bool" -> IF raw.n = 1 THEN <<"T", "r", "u", "e">>
                           ELSE <<"F", "a", "l", "s", "e">>
      [] OTHER          -> <<"0">>

\* A parsed JSON object: the five keys evaluate_job_fit reads.
Obj(score, chance, reason, highlights, style) ==
    [score |-> score, chance |-> chance, reason |-> reason,
     match_highlights |-> highlights, recommended_email_style |-> style]

EmptyObj == Obj(AbsentRaw, AbsentRaw, AbsentRaw, AbsentRaw, AbsentRaw)

\* What json.loads returns: k is "dict", "none" (JSON null) or "other" (a
\* list, number, string or boolean); o the object of a dict.
Parsed(k, o) == [k |-> k, o |-> o]

NoneParsed == Parsed("none", EmptyObj)
OtherParsed == Parsed("other", EmptyObj)
ParseError == Parsed("error", EmptyObj)

Seg(k, v) == [k |-> k, v |-> v]

WS == Seg("ws", NoneParsed)
TXT == Seg("txt", NoneParsed)
LB == Seg("lb", NoneParsed)
RB == Seg("rb", NoneParsed)
Val(v) == Seg("val", v)

\* str.strip() on a text.
RECURSIVE LStripText(_)
LStripText(t) == IF t # <<>> /\ Head(t).k = "ws" THEN LStripText(Tail(t)) ELSE t

RECURSIVE RStripText(_)
RStripText(t) ==
    IF t # <<>> /\ t[Len(t)].k = "ws"
    THEN RStripText(SubSeq(t, 1, Len(t) - 1)) ELSE t

StripText(t) == RStripText(LStripText(t))

\* json.loads: whitespace around the value is skipped; the text must be
\* exactly one JSON value. "{" "}" with nothing or whitespace between them
\* is the empty object.
JsonLoads(t) ==
    LET s == StripText(t)
    IN  IF Len(s) = 1 /\ s[1].k = "val" THEN s[1].v
        ELSE IF s = <<LB, RB>> \/ s = <<LB, WS, RB>> THEN Parsed("dict", EmptyObj)
        ELSE ParseError

HasOpen(seg) == seg.k = "lb" \/ (seg.k = "val" /\ seg.v.k = "dict")
HasClose(seg) == seg.k = "rb" \/ (seg.k = "val" /\ seg.v.k = "dict")

\* text.find("{"): index of the first segment holding "{", 0 for -1.
RECURSIVE FindOpen(_, _)
FindOpen(t, i) ==
    IF i > Len(t) THEN 0 ELSE IF HasOpen(t[i]) THEN i ELSE FindOpen(t, i + 1)

\* text.rfind("}"): index of the last segment holding "}", 0 for -1.
RECURSIVE RFindClose(_, _)
RFindClose(t, i) ==
    IF i = 0 THEN 0 ELSE IF HasClose(t[i]) THEN i ELSE RFindClose(t, i - 1)

\* text[start : end + 1] when start != -1, end != -1 and end > start: a
\* "val" segment of an object opens with "{" and closes with "}", so one
\* such segment alone is a candidate.
BraceCandidate(t) ==
    LET a == FindOpen(t, 1)
        b == RFindClose(t, Len(t))
    IN  IF a # 0 /\ b # 0
           /\ (b > a \/ (b = a /\ t[a].k = "val"))
        THEN SubSeq(t, a, b) ELSE <<>>

\* re.search(r"(\{(?:.|\s)*\})"): from the first "{" that a "}" follows,
\* greedily to the last "}".
RegexCandidate(t) == BraceCandidate(t)

\* _extract_json_from_text: direct parse, then the first-brace-to-last-brace
\* substring, then the regex; None when all fail.
ExtractJsonFromText(text) ==
    IF text = <<>> THEN NoneParsed
    ELSE LET t  == StripText(text)
             c2 == BraceCandidate(t)
             c3 == RegexCandidate(t)
         IN  IF JsonLoads(t).k # "error" THEN JsonLoads(t)
             ELSE IF c2 # <<>> /\ JsonLoads(c2).k # "error" THEN JsonLoads(c2)
             ELSE IF c3 # <<>> /\ JsonLoads(c3).k # "error" THEN JsonLoads(c3)
             ELSE NoneParsed

(***************************************************************************)
(* evaluate_job_fit (src/src/nlp/job_fit.py): the FitResult built from the *)
(* model's response text, or the exception it ends with.                   *)
(***************************************************************************)

\* A FitResult. raised is TRUE when evaluate_job_fit ends with an exception
\* (the other fields then mean nothing). chance is the value returned under
\* "chance": a string, or the non-string value the model gave. highlights
\* is "empty", "strs" (a list of strings) or "nonstrs" (a list whose first
\* three elements include a non-string).
FitResult(raised, score, chance, reason, highlights, style, raw) ==
    [raised |-> raised, score |-> score, chance |-> chance, reason |-> reason,
     match_highlights |-> highlights, recommended_email_style |-> style,
     raw |-> raw]

FitRaised == FitResult(TRUE, 0, NoneRaw, <<>>, "empty", <<>>, <<>>)

CouldNotParse ==
    <<"C", "o", "u", "l", "d", " ", "n", "o", "t", " ", "p", "a", "r", "s", "e",
      " ", "m", "o", "d", "e", "l", " ", "o", "u", "t", "p", "u", "t", ".">>

FitFallbackMediumChance(rawText) ==
    FitResult(FALSE, 0, StrRaw(MediumStr), CouldNotParse, "empty", BriefStr, rawText)

\* The fallback returned when no strategy parses the response.
FitFallback(rawText) ==
    FitResult(FALSE, 0, StrRaw(LowStr), CouldNotParse, "empty", BriefStr, rawText)

ChanceFromScore(score) ==
    IF score >= 75 THEN HighStr ELSE IF score >= 40 THEN MediumStr ELSE LowStr

\* chance = parsed.get("chance", "low"); only a string is lower-cased and
\* checked against the three values; any other value is returned as it is.
NormalizeChance(c, score) ==
    IF c.t = "absent" THEN StrRaw(LowStr)
    ELSE IF c.t = "str"
         THEN IF Lower(c.cs) \in {LowStr, MediumStr, HighStr}
              THEN StrRaw(Lower(c.cs))
              ELSE StrRaw(ChanceFromScore(score))
    ELSE c

\* match_highlights = parsed.get(..., []); a non-list becomes [str(value)].
NormalizeHighlights(h) ==
    CASE h.t \in {"absent", "list_empty"} -> "empty"
      [] h.t = "list_nonstr"              -> "nonstrs"
      [] OTHER                            -> "strs"

\* recommended_email_style: one of the three values, else mapped by
\* substring on str(value).lower().
NormalizeStyle(st) ==
    IF st.t = "absent" THEN BriefStr
    ELSE IF st.t = "str" /\ st.cs \in {BriefStr, DetailedStr, BulletedStr} THEN st.cs
    ELSE LET style == Lower(StrOf(st))
         IN  IF Contains(style, BulletStr) THEN BulletedStr
             ELSE IF Contains(style, BriefStr) \/ Contains(style, ShortStr)
                  THEN BriefStr
             ELSE DetailedStr

\* parsed.get("reason", "").strip() raises on a value that is no string.
ReasonRaises(r) == r.t \notin {"absent", "str"}

\* evaluate_job_fit once the model has answered with `text`. A parsed value
\* that is no dict has no .get, and raises.
EvaluateJobFit(text) ==
    LET parsed == ExtractJsonFromText(StripText(text))
    IN  IF parsed.k = "none" THEN FitFallback(StripText(text))
        ELSE IF parsed.k # "dict" THEN FitRaised
        ELSE IF ReasonRaises(parsed.o.reason) THEN FitRaised
        ELSE LET score == NormalizeScore(parsed.o.score)
             IN  FitResult(FALSE, score,
                           NormalizeChance(parsed.o.chance, score),
                           IF parsed.o.reason.t = "absent" THEN <<>>
                           ELSE Strip(parsed.o.reason.cs),
                           NormalizeHighlights(parsed.o.match_highlights),
                           NormalizeStyle(parsed.o.recommended_email_style),
                           StripText(text))

(***************************************************************************)
(* The context enricher (src/src/enrichment/enrichment.py, llm.py).        *)
(***************************************************************************)

\* The sources of an entity, in the order _collect_user_sources and
\* _collect_company_sources attempt them.
UserSlots == <<"resume", "resume_link", "github", "linkedin", "twitter", "past_work">>
CompanySlots == <<"website", "linkedin", "twitter">>

SlotsOf(kind) == IF kind = "user" THEN UserSlots ELSE CompanySlots

SlotSet(kind) == {SlotsOf(kind)[i] : i \in 1 .. Len(SlotsOf(kind))}

\* A stored context column: "null" (never set), "empty" (the empty string),
\* "json" (json.dumps of the parsed value v) or "raw" (json.dumps of
\* {"raw": text}).
Ctx(k, v, text) == [k |-> k, v |-> v, text |-> text]

NullCtx == Ctx("null", NoneParsed, <<>>)
EmptyCtx == Ctx("empty", NoneParsed, <<>>)

\* Python truth of a context column.
Truthy(ctx) == ctx.k \notin {"null", "empty"}

\* What the attempt on one source comes to: scrape_url (or the reading of
\* the resume) returns text, returns "" for a page without text or a URL
\* it rejects, or returns "" after a request that failed (connection error,
\* timeout, HTTP status, an exception caught in scraper.py lines 75-80 and
\* 115-120, in enrichment.py lines 25-29).
FetchOutcomes == {"text", "empty", "failed"}

\* "if txt:" / "if scraped:" (enrichment.py lines 36, 41, 47, 53, 63, 69).
Yielded(outcomes) == {sl \in DOMAIN outcomes : outcomes[sl] = "text"}

\* The collection given up at the first source that yields nothing.
CollectSourcesUntilFailure(kind, configured, fetched) ==
    LET slots == SlotsOf(kind)
        lost  == {i \in 1 .. Len(slots) :
                    slots[i] \in configured /\ slots[i] \notin fetched}
        upTo  == IF lost = {} THEN Len(slots)
                 ELSE (CHOOSE i \in lost : \A j \in lost : i <= j) - 1
    IN  SelectSeq(SubSeq(slots, 1, upTo),
                  LAMBDA sl : sl \in configured /\ sl \in fetched)

\* The sources gathered: each configured slot is attempted in order, and
\* contributes only when it yields text (`fetched`).
CollectSources(kind, configured, fetched) ==
    SelectSeq(SlotsOf(kind), LAMBDA sl : sl \in configured /\ sl \in fetched)

\* The slots scrape_url is called for: every configured one but the resume,
\* which is read from the stored bytes.
FetchedSlots(kind, configured) == configured \ {"resume"}

AnalyzeContentNoFallback(resp) ==
    LET raw == StripText(resp)
    IN  IF JsonLoads(raw).k = "dict" THEN Ctx("json", JsonLoads(raw), <<>>)
        ELSE NullCtx

\* analyze_content once the model has answered `resp`: the parsed value
\* re-serialised, else the object found between the braces, else
\* {"raw": <the stripped response>}.
AnalyzeContent(resp) ==
    LET raw == StripText(resp)
        c   == RegexCandidate(raw)
    IN  IF JsonLoads(raw).k # "error" THEN Ctx("json", JsonLoads(raw), <<>>)
        ELSE IF c # <<>> /\ JsonLoads(c).k # "error"
             THEN Ctx("json", JsonLoads(c), <<>>)
        ELSE Ctx("raw", NoneParsed, raw)

\* The model's answer to one request: a response text, or a transport
\* failure raised by the client.
Answer(ok, text) == [ok |-> ok, text |-> text]

LlmFails == Answer(FALSE, <<>>)

\* What one call of enrich_user_profile / enrich_company does: the context
\* it leaves, what it returns, whether it raised, the slots it fetched, the
\* sources it sent to the model, and whether it wrote the context. called
\* is FALSE only for the call that was not made.
EnrichOutcome(called, ctx, ret, raised, fetches, sent, llmCalled, wrote) ==
    [called |-> called, ctx |-> ctx, ret |-> ret, raised |-> raised,
     fetches |-> fetches, sent |-> sent, llmCalled |-> llmCalled, wrote |-> wrote]

EnrichEntityCachedNoOp(kind, configured, fetched, ctx, answer) ==
    LET sources == CollectSources(kind, configured, fetched)
        fetches == FetchedSlots(kind, configured)
    IN  IF Truthy(ctx)
        THEN EnrichOutcome(TRUE, ctx, ctx, FALSE, {}, <<>>, FALSE, FALSE)
        ELSE IF sources = <<>>
        THEN EnrichOutcome(TRUE, ctx, EmptyCtx, FALSE, fetches, <<>>, FALSE, FALSE)
        ELSE IF ~answer.ok
        THEN EnrichOutcome(TRUE, ctx, NullCtx, TRUE, fetches, sources, TRUE, FALSE)
        ELSE EnrichOutcome(TRUE, AnalyzeContent(answer.text),
                           AnalyzeContent(answer.text), FALSE,
                           fetches, sources, TRUE, TRUE)

EnrichEntityNoEarlyReturn(kind, configured, fetched, ctx, answer) ==
    LET sources == CollectSources(kind, configured, fetched)
        fetches == FetchedSlots(kind, configured)
    IN  IF ~answer.ok
        THEN EnrichOutcome(TRUE, ctx, NullCtx, TRUE, fetches, sources, TRUE, FALSE)
        ELSE EnrichOutcome(TRUE, AnalyzeContent(answer.text),
                           AnalyzeContent(answer.text), FALSE,
                           fetches, sources, TRUE, TRUE)

\* enrich_user_profile / enrich_company on an entity whose stored context
\* is ctx: the sources are gathered; with none the stored context (or "")
\* is returned; else analyze_content is called and its result stored. The
\* stored context is read only for the return value of the first case.
EnrichEntity(kind, configured, fetched, ctx, answer) ==
    LET sources == CollectSources(kind, configured, fetched)
        fetches == FetchedSlots(kind, configured)
    IN  IF sources = <<>>
        THEN EnrichOutcome(TRUE, ctx, IF Truthy(ctx) THEN ctx ELSE EmptyCtx, FALSE,
                           fetches, <<>>, FALSE, FALSE)
        ELSE IF ~answer.ok
        THEN EnrichOutcome(TRUE, ctx, NullCtx, TRUE, fetches, sources, TRUE, FALSE)
        ELSE EnrichOutcome(TRUE, AnalyzeContent(answer.text),
                           AnalyzeContent(answer.text), FALSE,
                           fetches, sources, TRUE, TRUE)

\* No call at all: what the orchestrator's gate leaves when it skips.
NotCalled(ctx) == EnrichOutcome(FALSE, ctx, NullCtx, FALSE, {}, <<>>, FALSE, FALSE)

(***************************************************************************)
(* Inputs drawn by the specifications.                                     *)
(***************************************************************************)

\* Longest response text, in segments.
MaxSegs == 3

\* Most sources configured on one entity in SpecEnrich.
MaxSources == 2

\* Most enrichment calls on one entity in SpecEnrich.
MaxCalls == 2

FitScoreSamples ==
    {IntRaw(0 - 3), IntRaw(20), IntRaw(85), IntRaw(103), FloatRaw(50),
     FloatRaw(29), FloatRaw(8550), FloatRaw(0 - 150),
     StrRaw(<<"8", "5", "%">>), StrRaw(<<"x">>), NoneRaw, AbsentRaw,
     Raw("nan", 0, <<>>), Raw("bool", 1, <<>>), Raw("list_empty", 0, <<>>)}

FitChanceSamples ==
    {StrRaw(LowStr), StrRaw(<<"H", "i", "g", "h">>), StrRaw(<<"m", "a", "y", "b", "e">>),
     NoneRaw, AbsentRaw, IntRaw(1)}

\* (reason, match_highlights, recommended_email_style) of a sampled object.
FitRestSamples ==
    {<<StrRaw(<<" ", "o", "k">>), Raw("list_strs", 1, <<>>), StrRaw(DetailedStr)>>,
     <<AbsentRaw, AbsentRaw, AbsentRaw>>,
     <<StrRaw(<<>>), Raw("list_nonstr", 1, <<>>), StrRaw(<<"B", "u", "l", "l", "e", "t", "s">>)>>,
     <<StrRaw(<<>>), StrRaw(<<"o", "k">>), StrRaw(<<"S", "H", "O", "R", "T">>)>>,
     <<StrRaw(<<>>), Raw("list_empty", 0, <<>>), NoneRaw>>,
     <<NoneRaw, NoneRaw, StrRaw(BriefStr)>>,
     <<IntRaw(1), Raw("list_strs", 1, <<>>), StrRaw(BriefStr)>>}

\* Every score with every chance (the chance may be derived from the
\* score), and every other field with a failing and a passing score.
FitObjs ==
    {Obj(sc, ch, StrRaw(<<>>), AbsentRaw, AbsentRaw) :
        sc \in FitScoreSamples, ch \in FitChanceSamples}
    \cup {Obj(sc, StrRaw(LowStr), r[1], r[2], r[3]) :
        sc \in {IntRaw(20), IntRaw(85)}, r \in FitRestSamples}

\* The shapes of a response: every segment kind, with one object `o` in
\* the place of each "val" of a dict.
SegsFor(o) == {WS, TXT, LB, RB, Val(Parsed("dict", o)), Val(NoneParsed), Val(OtherParsed)}

\* Two values side by side, or two runs of the same kind, are one segment.
WellFormed(t) ==
    \A i \in 1 .. (Len(t) - 1) :
        /\ ~(t[i].k = t[i + 1].k /\ t[i].k \in {"ws", "txt"})
        /\ ~(t[i].k = "val" /\ t[i + 1].k = "val"
             /\ (t[i].v.k # "dict" \/ t[i + 1].v.k # "dict"))
        /\ ~(t[i].k = "txt" /\ t[i + 1].k = "val" /\ t[i + 1].v.k # "dict")
        /\ ~(t[i + 1].k = "txt" /\ t[i].k = "val" /\ t[i].v.k # "dict")

RECURSIVE TextsUpTo(_, _)
TextsUpTo(n, segs) ==
    IF n = 0 THEN {<<>>}
    ELSE LET shorter == TextsUpTo(n - 1, segs)
         IN  shorter \cup
             {Append(t, sg) : t \in {x \in shorter : Len(x) = n - 1}, sg \in segs}

TextsWith(n, o) == {t \in TextsUpTo(n, SegsFor(o)) : WellFormed(t)}

\* The responses drawn for evaluate_job_fit: every shape around one object,
\* and every sampled object alone and inside prose.
ShapeObj == Obj(IntRaw(85), StrRaw(HighStr), StrRaw(<<>>), AbsentRaw, AbsentRaw)

FitTexts ==
    TextsWith(MaxSegs, ShapeObj)
    \cup {<<Val(Parsed("dict", o))>> : o \in FitObjs}
    \cup {<<TXT, Val(Parsed("dict", o)), TXT>> : o \in FitObjs}

\* The responses drawn during enrichment: a user context object, prose
\* around it, prose alone, braces around prose, JSON that is no object.
EnrichObj == Obj(AbsentRaw, AbsentRaw, AbsentRaw, AbsentRaw, AbsentRaw)

EnrichTexts ==
    {<<Val(Parsed("dict", EnrichObj))>>, <<TXT, Val(Parsed("dict", EnrichObj))>>,
     <<TXT>>, <<LB, TXT>>, <<LB, RB>>, <<Val(NoneParsed)>>, <<Val(OtherParsed)>>,
     <<>>}

EnrichAnswers == {LlmFails} \cup {Answer(TRUE, t) : t \in EnrichTexts}

\* The contexts an entity may hold before a call.
PriorCtxs == {NullCtx, EmptyCtx, Ctx("json", Parsed("dict", EnrichObj), <<>>)}

(***************************************************************************)
(* JobDetector (src/src/nlp/job_detector.py). A message body is a sequence *)
(* of characters.                                                          *)
(***************************************************************************)
JOB_KEYWORDS ==
    {<<"h", "i", "r", "i", "n", "g">>, <<"j", "o", "b">>,
     <<"v", "a", "c", "a", "n", "c", "y">>,
     <<"o", "p", "e", "n", "i", "n", "g">>,
     <<"p", "o", "s", "i", "t", "i", "o", "n">>,
     <<"c", "a", "r", "e", "e", "r">>,
     <<"o", "p", "p", "o", "r", "t", "u", "n", "i", "t", "y">>,
     <<"i", "n", "t", "e", "r", "n", "s", "h", "i", "p">>}

\* is_job_post: any(keyword.lower() in text.lower() ...), text compared
\* as written.
IsJobPostCaseSensitive(text) == \E keyword \in JOB_KEYWORDS : Contains(text, keyword)

\* is_job_post: any(keyword.lower() in text.lower() for keyword in
\* JOB_KEYWORDS).
IsJobPost(text) ==
    \E keyword \in JOB_KEYWORDS : Contains(Lower(text), Lower(keyword))

\* \w of a str pattern, on the characters of the bodies drawn here.
WordChars ==
    {"a", "b", "c", "d", "e", "f", "g", "h", "i", "j", "k", "l", "m", "n",
     "o", "p", "q", "r", "s", "t", "u", "v", "w", "x", "y", "z",
     "A", "B", "C", "D", "E", "F", "G", "H", "I", "J", "K", "L", "M", "N",
     "O", "P", "Q", "R", "S", "T", "U", "V", "W", "X", "Y", "Z",
     "0", "1", "2", "3", "4", "5", "6", "7", "8", "9", "_"}

\* \s
SpaceChars == {" ", "\n", "\t"}

\* A greedy run c+ of characters of cls starting at i: the index of its
\* last character, i - 1 when the run is empty.
RECURSIVE RunEnd(_, _, _)
RunEnd(text, i, cls) ==
    IF i <= Len(text) /\ text[i] \in cls THEN RunEnd(text, i + 1, cls) ELSE i - 1

\* \S+ starting at i.
RECURSIVE NonSpaceRunEnd(_, _)
NonSpaceRunEnd(text, i) ==
    IF i <= Len(text) /\ text[i] \notin SpaceChars
    THEN NonSpaceRunEnd(text, i + 1) ELSE i - 1

\* LINK_PATTERN (https?://\S+) with re.IGNORECASE, tried at position i:
\* the index of the last character matched, 0 when there is no match.
MatchLinkAt(text, i) ==
    LET low   == Lower(text)
        http  == <<"h", "t", "t", "p", ":", "/", "/">>
        https == <<"h", "t", "t", "p", "s", ":", "/", "/">>
        StartsWith(prefix) ==
            /\ i + Len(prefix) - 1 <= Len(text)
            /\ SubSeq(low, i, i + Len(prefix) - 1) = prefix
        from  == IF StartsWith(https) THEN i + Len(https)
                 ELSE IF StartsWith(http) THEN i + Len(http)
                 ELSE 0
        last  == NonSpaceRunEnd(text, from)
    IN  IF from # 0 /\ last >= from THEN last ELSE 0

\* EMAIL_PATTERN [\w\.-]+@[\w\.-]+\.\w+ tried at position i. The first
\* class takes the whole run and must be followed by "@"; the second
\* takes the whole run and gives characters back until a "." and a word
\* character follow; \w+ then takes the whole run of word characters.
MatchEmailAt(text, i) ==
    LET class    == WordChars \cup {".", "-"}
        localEnd == RunEnd(text, i, class)
        domFrom  == localEnd + 2
        domEnd   == RunEnd(text, domFrom, class)
        cuts     == {k \in domFrom .. (domEnd - 2) :
                        text[k + 1] = "." /\ text[k + 2] \in WordChars}
        cut      == CHOOSE k \in cuts : \A other \in cuts : other <= k
    IN  IF /\ localEnd >= i
           /\ localEnd + 1 <= Len(text)
           /\ text[localEnd + 1] = "@"
           /\ cuts # {}
        THEN RunEnd(text, cut + 2, WordChars)
        ELSE 0

\* extract_links: LINK_PATTERN.findall(text) from position i on, the
\* matches from left to right, each search starting where the last match
\* ended.
RECURSIVE ExtractLinks(_, _)
ExtractLinks(text, i) ==
    IF i > Len(text) THEN <<>>
    ELSE LET last == MatchLinkAt(text, i)
         IN  IF last = 0 THEN ExtractLinks(text, i + 1)
             ELSE <<SubSeq(text, i, last)>> \o ExtractLinks(text, last + 1)

\* extract_emails: EMAIL_PATTERN.findall(text) from position i on.
RECURSIVE ExtractEmails(_, _)
ExtractEmails(text, i) ==
    IF i > Len(text) THEN <<>>
    ELSE LET last == MatchEmailAt(text, i)
         IN  IF last = 0 THEN ExtractEmails(text, i + 1)
             ELSE <<SubSeq(text, i, last)>> \o ExtractEmails(text, last + 1)

\* parse_job returned None.
NoJobInfo == [isNone |-> TRUE, links |-> <<>>, emails |-> <<>>]

\* parse_job: None, or the dict with links and emails (role, company,
\* location and salary are not followed here).
ParseJobBody(text) ==
    IF ~IsJobPost(text) THEN NoJobInfo
    ELSE [isNone |-> FALSE, links |-> ExtractLinks(text, 1),
          emails |-> ExtractEmails(text, 1)]

\* Pieces a body is made of.
MaxParts == 3

RECURSIVE PartsUpTo(_, _)
PartsUpTo(n, parts) ==
    IF n = 0 THEN {<<>>}
    ELSE LET shorter == PartsUpTo(n - 1, parts)
         IN  shorter \cup {t \o p : t \in shorter, p \in parts}

\* The bodies drawn. For the classification: a keyword as it may be
\* written, or a word that comes close, between two affixes, and short
\* runs of pieces of a keyword. For the extraction: a first word, then up
\* to MaxParts pieces of addresses and links with the punctuation found
\* around them.
Bodies ==
    LET words ==
            {<<"h", "i", "r", "i", "n", "g">>, <<"j", "o", "b">>,
             <<"v", "a", "c", "a", "n", "c", "y">>,
             <<"o", "p", "e", "n", "i", "n", "g">>,
             <<"p", "o", "s", "i", "t", "i", "o", "n">>,
             <<"c", "a", "r", "e", "e", "r">>,
             <<"o", "p", "p", "o", "r", "t", "u", "n", "i", "t", "y">>,
             <<"i", "n", "t", "e", "r", "n", "s", "h", "i", "p">>,
             <<"H", "i", "r", "i", "n", "g">>, <<"J", "O", "B">>,
             <<"V", "a", "c", "a", "n", "c", "y">>,
             <<"O", "P", "E", "N", "I", "N", "G">>,
             <<"P", "o", "s", "i", "t", "i", "o", "n">>,
             <<"C", "A", "R", "E", "E", "R">>,
             <<"O", "p", "p", "o", "r", "t", "u", "n", "i", "t", "y">>,
             <<"I", "n", "t", "e", "r", "n", "S", "h", "i", "p">>}
            \cup
            {<<"h", "i", "r", "i", "n">>, <<"j", "a", "b">>,
             <<"v", "a", "c", "a", "n", "t">>,
             <<"o", "p", "e", "n", "\n", "i", "n", "g">>,
             <<"p", "o", "s", "i", "t", " ", "i", "o", "n">>,
             <<"c", "a", "r", "e", "r">>,
             <<"o", "p", "o", "r", "t", "u", "n", "i", "t", "y">>,
             <<"i", "n", "t", "e", "r", "n">>, <<"r", "e", "j", "o", "i", "n">>}
        affixes  == {<<>>, <<"x">>, <<" ">>}
        pieces   == {<<"j", "o">>, <<"J", "O">>, <<"b">>, <<"B">>, <<" ">>}
        parts ==
            {<<"h", "r">>, <<"i", "n", "+">>, <<"@", "a", ".", "i", "o">>, <<" ">>,
             <<".">>, <<"h", "t", "t", "p", ":", "/", "/", "x">>,
             <<"H", "T", "T", "P", "S", ":", "/", "/", "x">>}
        prefixes == {<<"j", "o", "b", " ">>, <<"h", "i", " ">>}
    IN  {pre \o w \o post : pre \in affixes, post \in affixes, w \in words}
        \cup PartsUpTo(MaxParts, pieces)
        \cup {pre \o t : pre \in prefixes, t \in PartsUpTo(MaxParts, parts)}

(***************************************************************************)
(* parse_whatsapp_chat (src/src/ingestion/whatsapp_parser.py). A line is   *)
(* a sequence of characters, without its newline.                          *)
(***************************************************************************)
\* line[i] is the character c.
At(line, i, c) == i >= 1 /\ i <= Len(line) /\ line[i] = c

\* Length of the run of digits that starts at i.
DigitRunLen(line, i) ==
    RunEnd(line, i, {"0", "1", "2", "3", "4", "5", "6", "7", "8", "9"}) - i + 1

\* The group (?:\s?[apAP]\.?m\.?)? tried at q: the index of the last
\* character it takes, q - 1 when it takes nothing. The "m" of the
\* pattern is a lower-case letter and the pattern has no IGNORECASE flag.
MarkerEnd(line, q) ==
    LET a == IF q <= Len(line) /\ line[q] \in SpaceChars THEN q + 1 ELSE q
        b == IF At(line, a + 1, ".") THEN a + 2 ELSE a + 1
    IN  IF /\ a <= Len(line) /\ line[a] \in {"a", "p", "A", "P"}
           /\ At(line, b, "m")
        THEN IF At(line, b + 1, ".") THEN b + 1 ELSE b
        ELSE q - 1

\* MESSAGE_REGEX.match(line) is None.
NoMatch ==
    [matched |-> FALSE, date |-> <<>>, time |-> <<>>, sender |-> <<>>,
     msg |-> <<>>]

\* MESSAGE_REGEX from the end of the date group at p - 1 on:
\* ,?\s*"?(?P<time>\d{1,2}:\d{2}(?:...)?)"?\s*-\s*(?P<sender>.*?):\s*(?P<msg>.*)
\* The lazy sender group ends before the first colon.
MatchAfterDate(line, p) ==
    LET p1     == IF At(line, p, ",") THEN p + 1 ELSE p
        p2     == RunEnd(line, p1, SpaceChars) + 1
        p3     == IF At(line, p2, "\"") THEN p2 + 1 ELSE p2
        hl     == DigitRunLen(line, p3)
        colon  == p3 + hl
        ml     == DigitRunLen(line, colon + 1)
        last   == MarkerEnd(line, colon + 3)
        p4     == IF At(line, last + 1, "\"") THEN last + 2 ELSE last + 1
        p5     == RunEnd(line, p4, SpaceChars) + 1
        p6     == RunEnd(line, p5 + 1, SpaceChars) + 1
        colons == {k \in p6 .. Len(line) : line[k] = ":"}
        first  == CHOOSE k \in colons : \A o \in colons : k <= o
        p7     == RunEnd(line, first + 1, SpaceChars) + 1
    IN  IF /\ hl \in 1 .. 2 /\ At(line, colon, ":") /\ ml >= 2
           /\ At(line, p5, "-")
           /\ colons # {}
        THEN [matched |-> TRUE,
              date    |-> SubSeq(line, 1, p - 1),
              time    |-> SubSeq(line, p3, last),
              sender  |-> SubSeq(line, p6, first - 1),
              msg     |-> SubSeq(line, p7, Len(line))]
        ELSE NoMatch

\* MESSAGE_REGEX.match(line): ^(\d{1,2}/\d{1,2}/\d{2,4}) and the rest. The
\* year group takes four digits if it can and gives digits back while the
\* rest does not match.
MatchStart(line) ==
    LET n1    == DigitRunLen(line, 1)
        s1    == n1 + 1
        n2    == DigitRunLen(line, s1 + 1)
        s2    == s1 + n2 + 1
        r     == DigitRunLen(line, s2 + 1)
        years == {y \in 2 .. 4 : y <= r /\ MatchAfterDate(line, s2 + y + 1).matched}
        year  == CHOOSE y \in years : \A o \in years : o <= y
    IN  IF /\ n1 \in 1 .. 2 /\ At(line, s1, "/")
           /\ n2 \in 1 .. 2 /\ At(line, s2, "/")
           /\ years # {}
        THEN MatchAfterDate(line, s2 + year + 1)
        ELSE NoMatch

\* datetime.strptime(f"{date_str} {time_str}", "%d/%m/%y %I:%M"): %d is a
\* day 1-31, %m a month 1-12, %y exactly two digits (00-68 are 2000-2068),
\* %I an hour 1-12 (12 is hour 0 without %p), %M a minute 0-59; any
\* character left after the minute is unconverted data, and the day must
\* exist in the month. ok is FALSE for the ValueError.
Strptime(date_str, time_str) ==
    LET n1     == DigitRunLen(date_str, 1)
        n2     == DigitRunLen(date_str, n1 + 2)
        yy     == SubSeq(date_str, n1 + n2 + 3, Len(date_str))
        day    == DigitsValue(SubSeq(date_str, 1, n1))
        month  == DigitsValue(SubSeq(date_str, n1 + 2, n1 + n2 + 1))
        year   == IF DigitsValue(yy) < 69 THEN 2000 + DigitsValue(yy)
                  ELSE 1900 + DigitsValue(yy)
        hl     == DigitRunLen(time_str, 1)
        hour   == DigitsValue(SubSeq(time_str, 1, hl))
        minute == DigitsValue(SubSeq(time_str, hl + 2, hl + 3))
        days   == IF month = 2 THEN (IF year % 4 = 0 THEN 29 ELSE 28)
                  ELSE IF month \in {4, 6, 9, 11} THEN 30 ELSE 31
    IN  IF /\ day \in 1 .. 31 /\ month \in 1 .. 12 /\ Len(yy) = 2
           /\ hour \in 1 .. 12 /\ minute \in 0 .. 59
           /\ Len(time_str) = hl + 3
           /\ day <= days
        THEN [ok |-> TRUE, year |-> year, month |-> month, day |-> day,
              hour |-> IF hour = 12 THEN 0 ELSE hour, minute |-> minute]
        ELSE [ok |-> FALSE, year |-> 0, month |-> 0, day |-> 0, hour |-> 0,
              minute |-> 0]

\* str.strip() of a line: whitespace of every kind is removed at both
\* ends.
StripLine(s) ==
    LET kept == {i \in 1 .. Len(s) : s[i] \notin SpaceChars}
    IN  IF kept = {} THEN <<>>
        ELSE SubSeq(s, CHOOSE i \in kept : \A j \in kept : i <= j,
                       CHOOSE i \in kept : \A j \in kept : j <= i)

\* buffer = None
NoBuffer == [none |-> TRUE]

\* What a call of parse_whatsapp_chat does: it returns messages, or an
\* exception leaves it.
ParseResult(raised, messages) == [raised |-> raised, messages |-> messages]

\* Lines 19-38: one pass of the loop over the lines, on the messages saved
\* so far and the buffered message (the dict of lines 27-31). The
\* ValueError of strptime leaves the function: the passes after it do
\* nothing.
ParseLine(loop, line, match, ts) ==
    IF loop.raised
    THEN loop
    ELSE IF match.matched
         THEN IF ~ts.ok
              THEN [loop EXCEPT !.raised = TRUE]
              ELSE [raised   |-> FALSE,
                    messages |-> IF loop.buffer # NoBuffer
                                 THEN Append(loop.messages, loop.buffer)
                                 ELSE loop.messages,
                    buffer   |-> [timestamp |-> ts, sender |-> match.sender,
                                  message |-> StripLine(match.msg)]]
         ELSE IF loop.buffer # NoBuffer
              THEN [loop EXCEPT !.buffer.message =
                                    @ \o <<"\n">> \o StripLine(line)]
              ELSE loop

\* Lines 37-39: the last buffered message is saved and the list returned.
ReturnMessages(loop) ==
    IF loop.raised
    THEN ParseResult(TRUE, <<>>)
    ELSE ParseResult(FALSE, IF loop.buffer # NoBuffer
                            THEN Append(loop.messages, loop.buffer)
                            ELSE loop.messages)

\* Lines 24-26: the timestamp of a line that matched.
Timestamp(match) == Strptime(match.date, match.time)

\* parse_whatsapp_chat: the loop over the lines from line i on, then the
\* return.
RECURSIVE ParseLines(_, _, _)
ParseLines(lines, i, loop) ==
    IF i > Len(lines)
    THEN ReturnMessages(loop)
    ELSE ParseLines(lines, i + 1,
                    ParseLine(loop, lines[i], MatchStart(lines[i]),
                              Timestamp(MatchStart(lines[i]))))

ParseWhatsappChat(lines) ==
    ParseLines(lines, 1,
               [raised |-> FALSE, messages |-> <<>>, buffer |-> NoBuffer])


\* A line of the export as it was written: the first line of a message,
\* with its date, time, am/pm marker, sender and text, or a further line
\* of the message before it.
StartLine(date, time, marker, sender, text) ==
    [kind |-> "start", date |-> date, time |-> time, marker |-> marker,
     sender |-> sender, text |-> text]

MoreLine(text) ==
    [kind |-> "more", date |-> <<>>, time |-> <<>>, marker |-> <<>>,
     sender |-> <<>>, text |-> text]

\* The characters of a line, "date, time - sender: text".
Render(l) ==
    IF l.kind = "start"
    THEN l.date \o <<",", " ">> \o l.time \o l.marker \o <<" ", "-", " ">>
         \o l.sender \o <<":", " ">> \o l.text
    ELSE l.text

DateDMY == <<"2", "4", "/", "0", "8", "/", "2", "5">>
TimeMorning == <<"1", "0", ":", "1", "5">>
TimeShortHour == <<"9", ":", "0", "5">>

\* The lines drawn: the line of the parser's test, 12-hour times with the
\* markers of the exports, a 24-hour time, a four-digit year, a day the
\* month does not have, and further lines of a message.
ChatLines ==
    LET jane == <<"J", "a", "n", "e", " ", "D", "o", "e">>
        al   == <<"A", "l">>
        hi   == <<"h", "i">>
    IN  {StartLine(DateDMY, TimeMorning, <<>>, jane,
                   <<"H", "i", "r", "i", "n", "g", ":", " ", "d", "e", "v">>),
         StartLine(DateDMY, TimeShortHour, <<>>, al, hi),
         StartLine(DateDMY, TimeMorning, <<" ", "a", "m">>, al, hi),
         StartLine(DateDMY, TimeMorning, <<" ", "P", "M">>, al, hi),
         StartLine(DateDMY, TimeShortHour, <<" ", "p", ".", "m", ".">>, al, hi),
         StartLine(DateDMY, <<"1", "3", ":", "0", "5">>, <<>>, al, hi),
         StartLine(<<"2", "4", "/", "0", "8", "/", "2", "0", "2", "5">>,
                   TimeMorning, <<>>, al, hi),
         StartLine(<<"3", "1", "/", "0", "2", "/", "2", "5">>, TimeMorning,
                   <<>>, al, hi),
         MoreLine(<<"E", "m", "a", "i", "l", " ", "u", "s">>),
         MoreLine(<<" ", " ", "m", "o", "r", "e", " ">>), MoreLine(<<>>)}

\* Lines in the exported file.
MaxLines == 2

RECURSIVE FilesUpTo(_)
FilesUpTo(n) ==
    IF n = 0 THEN {<<>>}
    ELSE LET shorter == FilesUpTo(n - 1)
         IN  shorter \cup {Append(f, l) : f \in shorter, l \in ChatLines}

(***************************************************************************)
(* The job description of the scoring request (src/src/orchestrator.py     *)
(* lines 229-253, src/src/nlp/job_fit.py lines 128-152). A text is         *)
(* modelled by its length in characters.                                   *)
(***************************************************************************)
\* scrape_url(url, max_chars = 5000).
ScrapeMaxChars == 5000

\* analyze_content sends text[:20000] to the model (llm.py line 42): the
\* longest text any request of the enricher holds.
SourceTextLimit == 20000

\* What a link comes to: scrape_url raises or returns, and the text of the
\* page it found has len characters.
Page(ok, len) == [ok |-> ok, len |-> len]

\* Lines 237-245 and scraper.py line 188: the length of scraped_text, 0
\* when the call raised (the exception is caught and logged).
ScrapedLen(page) ==
    IF ~page.ok THEN 0
    ELSE IF page.len > ScrapeMaxChars THEN ScrapeMaxChars ELSE page.len

\* len("\n\n".join(texts[i:])).
RECURSIVE JoinedLen(_, _)
JoinedLen(texts, i) ==
    IF i > Len(texts) THEN 0
    ELSE IF i = Len(texts) THEN texts[i]
    ELSE texts[i] + 2 + JoinedLen(texts, i + 1)

\* Lines 229-253: job_description is the message, followed by the texts
\* scraped from its links when any link yielded text.
JobDescriptionLen(messageLen, pages) ==
    LET scraped_texts ==
            SelectSeq([i \in 1 .. Len(pages) |-> ScrapedLen(pages[i])],
                      LAMBDA n : n > 0)
    IN  IF scraped_texts = <<>> THEN messageLen
        ELSE messageLen + 2 + JoinedLen(scraped_texts, 1)

\* job_fit.py lines 128-145: the f-string holds {job_description} whole.
PromptDescriptionLen(descriptionLen) == descriptionLen

\* Most links in one message.
MaxLinks == 2

MessageLens == {40, 20000, 30000}

PageSamples == {Page(FALSE, 0), Page(TRUE, 0), Page(TRUE, 300), Page(TRUE, 9000)}

RECURSIVE PagesUpTo(_)
PagesUpTo(n) ==
    IF n = 0 THEN {<<>>}
    ELSE PagesUpTo(n - 1) \cup
         {Append(ps, pg) : ps \in PagesUpTo(n - 1), pg \in PageSamples}

(***************************************************************************)
(* State.                                                                  *)
(***************************************************************************)
VARIABLES
    \* SpecScore: one call of _normalize_score
    scoreIn,      \* the raw value passed
    scoreOut,     \* the value returned, -1 before the call
    \* SpecFit: one call of evaluate_job_fit
    fitAnswer,    \* the model's answer to the scoring request
    fitOut,       \* the FitResult returned (or raised)
    fitPc,        \* "idle" | "ready" | "returned" | "raised"
    \* SpecEnrich: calls of the enrichment operation on one entity
    enKind,       \* "user" | "company" | "idle"
    enConfigured, \* the source slots the entity has a value for
    enCtx,        \* the entity's stored context
    enCalls,      \* calls made so far
    enLast,       \* the last call: caller, context before, answer, outcome
    enFetch,      \* the last call: what the attempt on each source came to
    \* SpecDetect: the detector run on one message of the loop
    body,         \* m["message"]
    job_info,     \* what parse_job returned
    detected,     \* job_count in SpecDetect
    detectedBefore, \* job_count before the message
    detPc,        \* "idle" | "ready" | "done"
    \* SpecParse: the export parsed at the start of main
    chatFile,     \* the lines of data/whatsapp/group.txt, as written
    chatOut,      \* what parse_whatsapp_chat did
    chatPc,       \* "idle" | "ready" | "parsed" | "aborted"
    \* SpecDescribe: the job description of one scoring request
    messageLen,      \* len(m["message"])
    linkPages,       \* what each link of the message comes to
    job_description, \* its length (0 - 1 before it is built)
    promptJobLen,    \* length of the job description in user_prompt
    descPc           \* "idle" | "ready" | "built" | "sent"

scoreVars == <<scoreIn, scoreOut>>
fitVars == <<fitAnswer, fitOut, fitPc>>
enrichVars == <<enKind, enConfigured, enCtx, enCalls, enLast, enFetch>>
detVars == <<body, job_info, detected, detectedBefore, detPc>>
chatVars == <<chatFile, chatOut, chatPc>>
descVars == <<messageLen, linkPages, job_description, promptJobLen, descPc>>

ScoreIdle == scoreIn = NoneRaw /\ scoreOut = 0 - 1
FitIdle == fitAnswer = LlmFails /\ fitOut = FitRaised /\ fitPc = "idle"

ChatIdle == chatFile = <<>> /\ chatOut = ParseResult(FALSE, <<>>) /\ chatPc = "idle"

DescIdle ==
    /\ messageLen = 0 /\ linkPages = <<>> /\ job_description = 0 - 1
    /\ promptJobLen = 0 - 1 /\ descPc = "idle"

DetectIdle ==
    /\ body = <<>> /\ job_info = NoJobInfo
    /\ detected = 0 /\ detectedBefore = 0 /\ detPc = "idle"

LastCall(caller, before, answer, out) ==
    [caller |-> caller, before |-> before, answer |-> answer, out |-> out]

NoCall == LastCall("none", NullCtx, LlmFails, NotCalled(NullCtx))

EnrichIdle ==
    /\ enKind = "idle" /\ enConfigured = {} /\ enCtx = NullCtx
    /\ enCalls = 0 /\ enLast = NoCall /\ enFetch = <<>>

(***************************************************************************)
(* SpecScore: _normalize_score on one raw value.                           *)
(***************************************************************************)
NormalizeScoreCall ==
    /\ scoreOut = 0 - 1
    /\ scoreOut' = NormalizeScore(scoreIn)
    /\ UNCHANGED scoreIn

(***************************************************************************)
(* SpecFit: evaluate_job_fit on one answer of the model.                   *)
(***************************************************************************)
\* client.chat.completions.create raises: the exception leaves
\* evaluate_job_fit.
FitTransportFails ==
    /\ fitPc = "ready" /\ ~fitAnswer.ok
    /\ fitOut' = FitRaised
    /\ fitPc' = "raised"
    /\ UNCHANGED fitAnswer

EvaluateJobFitCall ==
    /\ fitPc = "ready" /\ fitAnswer.ok
    /\ fitOut' = EvaluateJobFit(fitAnswer.text)
    /\ fitPc' = IF EvaluateJobFit(fitAnswer.text).raised THEN "raised" ELSE "returned"
    /\ UNCHANGED fitAnswer

(***************************************************************************)
(* SpecEnrich: the enrichment operation on one entity, called through the  *)
(* orchestrator's gate (orchestrator.py, "if not profile.profile_context", *)
(* "if company and not company.company_context") or by                     *)
(* run_enrichment_once (src/src/utils/cron_pipeline.py), which calls it on *)
(* every stored entity.                                                    *)
(***************************************************************************)
GateAlwaysOpen(ctx) == TRUE

\* The orchestrator's gate: enrichment is called only on a falsy context.
GateOpen(ctx) == ~Truthy(ctx)

OrchestratorEnrich ==
    /\ enKind \in {"user", "company"} /\ enCalls < MaxCalls
    /\ IF GateOpen(enCtx)
       THEN \E outcomes \in [enConfigured -> FetchOutcomes],
               answer \in EnrichAnswers :
              LET out == EnrichEntity(enKind, enConfigured, Yielded(outcomes),
                                      enCtx, answer)
              IN  /\ enLast' = LastCall("orchestrator", enCtx,
                                        IF out.llmCalled THEN answer ELSE LlmFails, out)
                  /\ enCtx' = out.ctx
                  /\ enFetch' = outcomes
       ELSE /\ enLast' = LastCall("orchestrator", enCtx, LlmFails, NotCalled(enCtx))
            /\ enCtx' = enCtx
            /\ enFetch' = <<>>
    /\ enCalls' = enCalls + 1
    /\ UNCHANGED <<enKind, enConfigured>>

\* run_enrichment_once: no check of the stored context; an exception of
\* the call is caught and printed.
CronEnrich ==
    /\ enKind \in {"user", "company"} /\ enCalls < MaxCalls
    /\ \E outcomes \in [enConfigured -> FetchOutcomes], answer \in EnrichAnswers :
         LET out == EnrichEntity(enKind, enConfigured, Yielded(outcomes),
                                 enCtx, answer)
         IN  /\ enLast' = LastCall("cron", enCtx,
                                   IF out.llmCalled THEN answer ELSE LlmFails, out)
             /\ enCtx' = out.ctx
             /\ enFetch' = outcomes
    /\ enCalls' = enCalls + 1
    /\ UNCHANGED <<enKind, enConfigured>>

(***************************************************************************)
(* Spec: one run of orchestrator.main (src/src/orchestrator.py).           *)
(***************************************************************************)

\* Messages in the parsed chat log.
NumMsgs == 2

\* The gate of line 294: fit_score >= 30.
ApplyThreshold == 30

AddrA == "hr@a.io"
AddrB == "jobs@b.io"

NoName == <<>>

CompanyNames == {<<"A", " ", "b">>, <<"a", "_", "b">>, <<"C", "d">>}

\* str.replace(" ", "_").
ReplaceSpace(cs) == [i \in 1 .. Len(cs) |-> IF cs[i] = " " THEN "_" ELSE cs[i]]

\* company_id = f"company_{company_name.lower().replace(' ', '_')}".
CompanyIdOf(name) == <<"company_">> \o ReplaceSpace(Lower(name))

CompanyIds == {CompanyIdOf(n) : n \in CompanyNames}

NoCompany == <<"none">>

\* A row of the companies table. A row the orchestrator creates has no
\* website and no social handle; a row that was there before the run may
\* have a website.
CompanyRow(present, name, hasSite, ctx) ==
    [present |-> present, name |-> name, hasSite |-> hasSite, ctx |-> ctx]

AbsentRow == CompanyRow(FALSE, NoName, FALSE, NullCtx)

WrittenCtx == Ctx("json", Parsed("dict", EnrichObj), <<>>)

EmptyStore == [id \in CompanyIds |-> AbsentRow]

\* The companies table before the run: empty, or one row left by an
\* earlier run or another tool.
InitialStores ==
    {EmptyStore} \cup
    {[EmptyStore EXCEPT ![CompanyIdOf(n)] = CompanyRow(TRUE, n, r[1], r[2])] :
        n \in {<<"a", "_", "b">>},
        r \in {<<TRUE, NullCtx>>}}

\* session.query(Company).filter(Company.name == company_name).first().
FindByName(store, name) ==
    {id \in CompanyIds : store[id].present /\ store[id].name = name}

\* A message as parse_whatsapp_chat builds it (timestamp, sender, message:
\* whatsapp_parser.py lines 27-31) and as the detector reads its body.
\* The parser sets no "form_url" key, so m.get("form_url") is None for
\* every message of the run, also when the body holds the link of a form.
NoFormUrl == "None"

Message(hasKeyword, emails, company, links) ==
    [hasKeyword |-> hasKeyword, emails |-> emails, company |-> company,
     links |-> links, form_url |-> NoFormUrl]

\* The links of a body: a job page, the link of a Google Form.
PageLink == "https://jobs.a.io/42"
FormLink == "https://forms.gle/x1"

LinkLists == {<<>>, <<PageLink>>, <<FormLink>>}

\* EMAIL_PATTERN.findall: every occurrence, in order, repeats included.
EmailLists == {<<>>, <<AddrA>>, <<AddrA, AddrA>>, <<AddrA, AddrB>>}

NonJobMessage == Message(FALSE, <<>>, NoName, <<>>)

JobMessages ==
    {Message(TRUE, es, NoName, ls) : es \in EmailLists, ls \in LinkLists}
    \cup {Message(TRUE, es, c, <<>>) :
            es \in {<<>>, <<AddrA>>}, c \in CompanyNames}

Messages == {NonJobMessage} \cup JobMessages

HasFormLink(m) == \E i \in 1 .. Len(m.links) : m.links[i] = FormLink

\* JobDetector.parse_job: None unless the body holds a keyword.
ParseJob(m) == IF m.hasKeyword THEN m ELSE NonJobMessage

IsJob(m) == ParseJob(m).hasKeyword

\* The answers drawn for the fit request during a run.
FitObjOf(sc, ch, hl) == Obj(sc, ch, StrRaw(<<>>), hl, AbsentRaw)

OrchFitTexts ==
    {<<Val(Parsed("dict", FitObjOf(IntRaw(85), StrRaw(HighStr), Raw("list_strs", 1, <<>>))))>>,
     <<Val(Parsed("dict", FitObjOf(IntRaw(20), StrRaw(LowStr), AbsentRaw)))>>,
     <<Val(Parsed("dict", FitObjOf(IntRaw(20), StrRaw(MediumStr), AbsentRaw)))>>,
     <<Val(Parsed("dict", FitObjOf(IntRaw(20), StrRaw(LowStr), Raw("list_nonstr", 1, <<>>))))>>,
     <<TXT>>, <<LB, TXT>>}

OrchFitAnswers == {LlmFails} \cup {Answer(TRUE, t) : t \in OrchFitTexts}

OrchEnrichAnswers ==
    {LlmFails, Answer(TRUE, <<Val(Parsed("dict", EnrichObj))>>)}

\* One pass of the email loop: the address, whether the writer returned,
\* and what send_email did ("not_called", "raised", "smtp_failed", "sent").
Attempt(to, composed, delivery) ==
    [to |-> to, composed |-> composed, delivery |-> delivery]

VARIABLES
    pc,            \* "profile" | "loop" | "company" | "scrape" | "enrich" | "fit"
                   \* | "dispatch" | "email" | "done" | "aborted" | "idle"
    idx,           \* messages taken from msgs so far
    cur,           \* the message being processed (m)
    job_count,
    applied_count,
    skipped_count,
    companies,     \* the companies table
    profileCtx,    \* profile.profile_context (before the run: the stored row's)
    mailConfigured,\* EMAIL_ADDRESS and EMAIL_PASSWORD are set
    storedProfileCtx, \* existing.profile_context as session.get read it (line
                   \* 58); dead once the loop over the messages has started
    company,       \* company_id of the current job's company, or NoCompany
    scraped,       \* links of the current job that yielded text
    fit,           \* what evaluate_job_fit did for the current job
    fitDone,       \* evaluate_job_fit was called for the current job
    should_apply,
    reachedStep6,  \* the current job reached "STEP 6: Email Writing & Sending"
    ei,            \* index of the email loop
    attempts,      \* the passes of the email loop for the current job
    forms,         \* fill_google_form calls for the current job
    dSkipped,      \* what the current message added to skipped_count
    dApplied,      \* what the current message added to applied_count
    profileEnrichCalls, \* calls of enrich_user_profile in the run
    companyEnrichCalls, \* calls of enrich_company in the run, per company
    companyWrites,      \* contexts written by enrich_company, per company
    callsOnEnriched     \* enrichment calls made on a truthy context

msgVars ==
    <<cur, company, scraped, fit, fitDone, should_apply, reachedStep6, ei,
      attempts, forms, dSkipped, dApplied>>
countVars == <<job_count, applied_count, skipped_count>>
envVars == <<mailConfigured>>
enrichHist ==
    <<profileEnrichCalls, companyEnrichCalls, companyWrites, callsOnEnriched,
      storedProfileCtx>>
orchVars == <<pc, idx, companies, profileCtx, msgVars, countVars, envVars, enrichHist>>

vars == <<scoreVars, fitVars, enrichVars, orchVars, detVars, chatVars, descVars>>

FreshMessageState ==
    /\ company' = NoCompany /\ scraped' = 0 /\ fit' = FitRaised
    /\ fitDone' = FALSE /\ should_apply' = FALSE /\ reachedStep6' = FALSE
    /\ ei' = 0 /\ attempts' = <<>> /\ forms' = 0
    /\ dSkipped' = 0 /\ dApplied' = 0

OrchIdle ==
    /\ pc = "idle" /\ idx = 0 /\ cur = NonJobMessage
    /\ job_count = 0 /\ applied_count = 0 /\ skipped_count = 0
    /\ companies = EmptyStore /\ profileCtx = NullCtx /\ mailConfigured = FALSE
    /\ storedProfileCtx = NullCtx
    /\ company = NoCompany /\ scraped = 0 /\ fit = FitRaised
    /\ fitDone = FALSE /\ should_apply = FALSE /\ reachedStep6 = FALSE
    /\ ei = 0 /\ attempts = <<>> /\ forms = 0 /\ dSkipped = 0 /\ dApplied = 0
    /\ profileEnrichCalls = 0
    /\ companyEnrichCalls = [id \in CompanyIds |-> 0]
    /\ companyWrites = [id \in CompanyIds |-> 0]
    /\ callsOnEnriched = 0

\* Lines 152-170: upsert_user_profile sets profile_context to the value of
\* USER_PROFILE_CONTEXT (None when unset), on a new row and on an existing
\* one, and the handles to those of the environment; then the profile is
\* enriched if its context is falsy. An exception of the enrichment is
\* caught and logged.
ProfileSetup ==
    /\ pc = "profile"
    /\ \E envCtx \in {NullCtx, WrittenCtx}, cfg \in {{}, {"github"}} :
         IF GateOpen(envCtx)
         THEN \E fetched \in SUBSET cfg, answer \in OrchEnrichAnswers :
                LET out == EnrichEntity("user", cfg, fetched, envCtx, answer)
                IN  /\ profileCtx' = out.ctx
                    /\ profileEnrichCalls' = profileEnrichCalls + 1
                    /\ callsOnEnriched' =
                         IF Truthy(envCtx) THEN callsOnEnriched + 1 ELSE callsOnEnriched
         ELSE /\ profileCtx' = envCtx
              /\ UNCHANGED <<profileEnrichCalls, callsOnEnriched>>
    /\ pc' = "loop"
    /\ UNCHANGED <<idx, companies, msgVars, countVars, envVars,
                   companyEnrichCalls, companyWrites, storedProfileCtx>>

\* The next message taken while the emails of the one before are still
\* being sent.
LoopBodyEndedOrSending(p) == p \in {"loop", "email"}

\* Line 174: the for statement takes the next message when the body has
\* ended for the one before (its last statement, or the else of line 359);
\* every call in the body returns before the statement after it runs.
LoopBodyEnded(p) == p = "loop"

\* Lines 174-184 and 359-360: the next message is taken and the detector
\* run on its body; a job increments job_count.
Detect ==
    /\ LoopBodyEnded(pc) /\ idx < NumMsgs
    /\ \E m \in Messages :
         /\ cur' = m
         /\ IF IsJob(m)
            THEN job_count' = job_count + 1 /\ pc' = "company"
            ELSE job_count' = job_count /\ pc' = "loop"
    /\ idx' = idx + 1
    /\ FreshMessageState
    /\ storedProfileCtx' = NullCtx
    /\ UNCHANGED <<companies, profileCtx, applied_count, skipped_count,
                   envVars, profileEnrichCalls, companyEnrichCalls,
                   companyWrites, callsOnEnriched>>

\* Lines 195-225: the company row is looked up by name and created when no
\* row has that name; the INSERT of an id the table already holds fails at
\* session.commit() and the exception leaves main. Then the job post is
\* merged.
CompanyLookup ==
    /\ pc = "company"
    /\ LET name  == cur.company
           found == FindByName(companies, name)
           newId == CompanyIdOf(name)
       IN  IF name = NoName
           THEN /\ company' = NoCompany /\ pc' = "scrape"
                /\ UNCHANGED companies
           ELSE IF found # {}
           THEN /\ company' = CHOOSE id \in found : TRUE
                /\ pc' = "scrape"
                /\ UNCHANGED companies
           ELSE IF companies[newId].present
           THEN /\ pc' = "aborted"
                /\ UNCHANGED <<company, companies>>
           ELSE /\ companies' = [companies EXCEPT
                                   ![newId] = CompanyRow(TRUE, name, FALSE, NullCtx)]
                /\ company' = newId
                /\ pc' = "scrape"
    /\ UNCHANGED <<idx, cur, profileCtx, scraped, fit, fitDone, should_apply,
                   reachedStep6, ei, attempts, forms, dSkipped, dApplied,
                   countVars, envVars, enrichHist>>

\* Lines 227-253: every link is scraped; those that yield text are added
\* to the job description.
ScrapeLinks ==
    /\ pc = "scrape"
    /\ \E n \in 0 .. Len(cur.links) : scraped' = n
    /\ pc' = "enrich"
    /\ UNCHANGED <<idx, cur, companies, profileCtx, company, fit, fitDone,
                   should_apply, reachedStep6, ei, attempts, forms, dSkipped,
                   dApplied, countVars, envVars, enrichHist>>

\* Lines 255-269: enrich_company is called when the job has a company
\* whose context is falsy; its exception is caught and logged.
EnrichCompanyStep ==
    /\ pc = "enrich"
    /\ IF company # NoCompany /\ GateOpen(companies[company].ctx)
       THEN \E fetched \in SUBSET (IF companies[company].hasSite THEN {"website"} ELSE {}),
               answer \in OrchEnrichAnswers :
              LET row == companies[company]
                  out == EnrichEntity("company",
                                      IF row.hasSite THEN {"website"} ELSE {},
                                      fetched, row.ctx, answer)
              IN  /\ companies' = [companies EXCEPT ![company].ctx = out.ctx]
                  /\ companyWrites' =
                       [companyWrites EXCEPT
                          ![company] = IF out.wrote THEN @ + 1 ELSE @]
                  /\ companyEnrichCalls' = [companyEnrichCalls EXCEPT ![company] = @ + 1]
                  /\ callsOnEnriched' =
                       IF Truthy(row.ctx) THEN callsOnEnriched + 1 ELSE callsOnEnriched
       ELSE UNCHANGED <<companies, companyWrites, companyEnrichCalls, callsOnEnriched>>
    /\ pc' = "fit"
    /\ UNCHANGED <<idx, profileCtx, msgVars, countVars, envVars,
                   profileEnrichCalls, storedProfileCtx>>

\* fit_chance in ["medium", "high"].
ChanceIsMediumOrHigh(ch) == ch.t = "str" /\ ch.cs \in {MediumStr, HighStr}

\* Line 294.
ShouldApply(res) == res.score >= ApplyThreshold \/ ChanceIsMediumOrHigh(res.chance)

\* Lines 290-291: ', '.join(match_highlights[:3]) raises TypeError on an
\* element that is no string.
HighlightsLogRaises(res) == res.match_highlights = "nonstrs"

\* A job below the gate that goes on to STEP 6 all the same.
AfterFitNoContinue(apply) == "dispatch"

\* Lines 296-301: a job that passes the gate goes on to STEP 6; for one
\* below it, continue takes the next message.
AfterFit(apply) == IF apply THEN "dispatch" ELSE "loop"

\* Lines 271-307: the try block around evaluate_job_fit. Any exception in
\* it, of the call or of the logging that follows, sets should_apply to
\* True; a result below the gate increments skipped_count and ends the
\* message.
FitStep ==
    /\ pc = "fit"
    /\ \E answer \in OrchFitAnswers :
         LET res    == IF answer.ok THEN EvaluateJobFit(answer.text) ELSE FitRaised
             failed == res.raised \/ HighlightsLogRaises(res)
             apply  == failed \/ ShouldApply(res)
         IN  /\ fit' = res
             /\ should_apply' = apply
             /\ pc' = AfterFit(apply)
             /\ IF apply
                THEN UNCHANGED <<skipped_count, dSkipped>>
                ELSE /\ skipped_count' = skipped_count + 1
                     /\ dSkipped' = dSkipped + 1
    /\ fitDone' = TRUE
    /\ UNCHANGED <<idx, cur, companies, profileCtx, company, scraped,
                   reachedStep6, ei, attempts, forms, dApplied, job_count,
                   applied_count, envVars, enrichHist>>

\* Lines 309-358: emails first, else the message's form_url, else the job
\* is skipped for want of an application method.
ChooseChannel ==
    /\ pc = "dispatch"
    /\ reachedStep6' = TRUE
    /\ IF cur.emails # <<>> /\ should_apply
       THEN /\ pc' = "email" /\ ei' = 1
            /\ UNCHANGED <<forms, applied_count, dApplied, skipped_count, dSkipped>>
       ELSE IF cur.form_url # NoFormUrl /\ should_apply
       THEN /\ \E ok \in BOOLEAN :
                 /\ applied_count' = IF ok THEN applied_count + 1 ELSE applied_count
                 /\ dApplied' = IF ok THEN dApplied + 1 ELSE dApplied
            /\ forms' = forms + 1
            /\ pc' = "loop"
            /\ UNCHANGED <<ei, skipped_count, dSkipped>>
       ELSE /\ skipped_count' = skipped_count + 1
            /\ dSkipped' = dSkipped + 1
            /\ pc' = "loop"
            /\ UNCHANGED <<ei, forms, applied_count, dApplied>>
    /\ UNCHANGED <<idx, cur, companies, profileCtx, company, scraped, fit,
                   fitDone, should_apply, attempts, job_count, envVars, enrichHist>>

\* The loop over emails left at the first pass that fails.
NextPassEndsLoopOnFailure(i, n, returned) ==
    IF i = n \/ ~returned THEN "loop" ELSE "email"

\* Lines 313 and 343-344: the except clause belongs to the body of the
\* for statement, so a pass that fails is followed by the next address;
\* after the last address the loop body of the message has ended.
NextPass(i, n, returned) == IF i = n THEN "loop" ELSE "email"

\* Lines 313-344: one pass of the loop over emails. The writer may raise;
\* send_email raises when the credentials are missing and swallows every
\* SMTP failure. applied_count is incremented when send_email returns.
SendApplication ==
    /\ pc = "email"
    /\ \E composed \in BOOLEAN, smtpOk \in BOOLEAN :
         LET delivery == IF ~composed THEN "not_called"
                         ELSE IF ~mailConfigured THEN "raised"
                         ELSE IF smtpOk THEN "sent" ELSE "smtp_failed"
             returned == delivery \in {"sent", "smtp_failed"}
         IN  /\ attempts' = Append(attempts, Attempt(cur.emails[ei], composed, delivery))
             /\ applied_count' = IF returned THEN applied_count + 1 ELSE applied_count
             /\ dApplied' = IF returned THEN dApplied + 1 ELSE dApplied
             /\ pc' = NextPass(ei, Len(cur.emails), returned)
    /\ ei' = ei + 1
    /\ UNCHANGED <<idx, cur, companies, profileCtx, company, scraped, fit,
                   fitDone, should_apply, reachedStep6, forms, dSkipped,
                   job_count, skipped_count, envVars, enrichHist>>

\* Lines 362-373: the loop is over (its variables are dead); the session
\* is committed and the counts are reported.
Finish ==
    /\ pc = "loop" /\ idx = NumMsgs
    /\ pc' = "done"
    /\ cur' = NonJobMessage
    /\ FreshMessageState
    /\ UNCHANGED <<idx, companies, profileCtx, countVars, envVars, enrichHist>>

(***************************************************************************)
(* The specifications.                                                     *)
(***************************************************************************)
InitScore ==
    /\ scoreIn \in ScoreRaws /\ scoreOut = 0 - 1
    /\ FitIdle /\ EnrichIdle /\ OrchIdle /\ DetectIdle /\ ChatIdle /\ DescIdle

NextScore == NormalizeScoreCall /\ UNCHANGED <<fitVars, enrichVars, orchVars, detVars, chatVars, descVars>>

SpecScore == InitScore /\ [][NextScore]_vars

InitFit ==
    /\ fitAnswer \in {LlmFails} \cup {Answer(TRUE, t) : t \in FitTexts}
    /\ fitOut = FitRaised /\ fitPc = "ready"
    /\ ScoreIdle /\ EnrichIdle /\ OrchIdle /\ DetectIdle /\ ChatIdle /\ DescIdle

NextFit ==
    \/ FitTransportFails /\ UNCHANGED <<scoreVars, enrichVars, orchVars, detVars, chatVars, descVars>>
    \/ EvaluateJobFitCall /\ UNCHANGED <<scoreVars, enrichVars, orchVars, detVars, chatVars, descVars>>

SpecFit == InitFit /\ [][NextFit]_vars

\* The slots an entity of the run may have a value for: the stored
\* resume, one handle and the past-work links of a user; every slot of a
\* company.
SampledSlots(kind) ==
    IF kind = "user" THEN {"resume", "github", "past_work"} ELSE SlotSet("company")

EntityConfigs ==
    {kc \in {"user", "company"} \X SUBSET SlotSet("user") :
        kc[2] \subseteq SampledSlots(kc[1]) /\ Cardinality(kc[2]) <= MaxSources}

InitEnrich ==
    /\ \E kc \in EntityConfigs : enKind = kc[1] /\ enConfigured = kc[2]
    /\ enCtx \in PriorCtxs
    /\ enCalls = 0 /\ enLast = NoCall /\ enFetch = <<>>
    /\ ScoreIdle /\ FitIdle /\ OrchIdle /\ DetectIdle /\ ChatIdle /\ DescIdle

NextEnrich ==
    \/ OrchestratorEnrich /\ UNCHANGED <<scoreVars, fitVars, orchVars, detVars, chatVars, descVars>>
    \/ CronEnrich /\ UNCHANGED <<scoreVars, fitVars, orchVars, detVars, chatVars, descVars>>

SpecEnrich == InitEnrich /\ [][NextEnrich]_vars

\* SpecDetect: one pass of lines 178-184 of main on a message body.
\* job_count was incremented for some of the messages before it. The
\* dict parse_job returns has seven keys and is truthy; None is not.
DetectMessage ==
    /\ detPc = "ready"
    /\ job_info' = ParseJobBody(body)
    /\ detected' = IF ParseJobBody(body).isNone THEN detected ELSE detected + 1
    /\ detPc' = "done"
    /\ UNCHANGED <<body, detectedBefore>>

InitDetect ==
    /\ body \in Bodies /\ job_info = NoJobInfo
    /\ detected \in 0 .. (NumMsgs - 1) /\ detectedBefore = detected
    /\ detPc = "ready"
    /\ ScoreIdle /\ FitIdle /\ EnrichIdle /\ OrchIdle /\ ChatIdle /\ DescIdle

NextDetect == DetectMessage /\ UNCHANGED <<scoreVars, fitVars, enrichVars, orchVars, chatVars, descVars>>

SpecDetect == InitDetect /\ [][NextDetect]_vars

\* SpecParse: lines 142-145 of main. The call is outside every try: the
\* exception of parse_whatsapp_chat ends the run before the session is
\* opened.
ParseChat ==
    /\ chatPc = "ready"
    /\ LET lines == [i \in 1 .. Len(chatFile) |-> Render(chatFile[i])]
       IN  /\ chatOut' = ParseWhatsappChat(lines)
           /\ chatPc' = IF ParseWhatsappChat(lines).raised
                        THEN "aborted" ELSE "parsed"
    /\ UNCHANGED chatFile

InitParse ==
    /\ chatFile \in FilesUpTo(MaxLines) /\ chatOut = ParseResult(FALSE, <<>>)
    /\ chatPc = "ready"
    /\ ScoreIdle /\ FitIdle /\ EnrichIdle /\ OrchIdle /\ DetectIdle /\ DescIdle

NextParse ==
    ParseChat /\ UNCHANGED <<scoreVars, fitVars, enrichVars, orchVars, detVars, descVars>>

SpecParse == InitParse /\ [][NextParse]_vars

\* SpecDescribe: the job description of one job, from the message to the
\* request (orchestrator.py lines 229-253 and 275-278, job_fit.py lines
\* 128-152).
BuildJobDescription ==
    /\ descPc = "ready"
    /\ job_description' = JobDescriptionLen(messageLen, linkPages)
    /\ descPc' = "built"
    /\ UNCHANGED <<messageLen, linkPages, promptJobLen>>

BuildPrompt ==
    /\ descPc = "built"
    /\ promptJobLen' = PromptDescriptionLen(job_description)
    /\ descPc' = "sent"
    /\ UNCHANGED <<messageLen, linkPages, job_description>>

InitDescribe ==
    /\ messageLen \in MessageLens /\ linkPages \in PagesUpTo(MaxLinks)
    /\ job_description = 0 - 1 /\ promptJobLen = 0 - 1 /\ descPc = "ready"
    /\ ScoreIdle /\ FitIdle /\ EnrichIdle /\ OrchIdle /\ DetectIdle /\ ChatIdle

NextDescribe ==
    \/ BuildJobDescription
         /\ UNCHANGED <<scoreVars, fitVars, enrichVars, orchVars, detVars, chatVars>>
    \/ BuildPrompt
         /\ UNCHANGED <<scoreVars, fitVars, enrichVars, orchVars, detVars, chatVars>>

SpecDescribe == InitDescribe /\ [][NextDescribe]_vars

Init ==
    /\ pc = "profile" /\ idx = 0 /\ cur = NonJobMessage
    /\ job_count = 0 /\ applied_count = 0 /\ skipped_count = 0
    /\ companies \in InitialStores
    /\ profileCtx \in {NullCtx, WrittenCtx}
    /\ storedProfileCtx = profileCtx
    /\ mailConfigured \in BOOLEAN
    /\ company = NoCompany /\ scraped = 0 /\ fit = FitRaised
    /\ fitDone = FALSE /\ should_apply = FALSE /\ reachedStep6 = FALSE
    /\ ei = 0 /\ attempts = <<>> /\ forms = 0 /\ dSkipped = 0 /\ dApplied = 0
    /\ profileEnrichCalls = 0
    /\ companyEnrichCalls = [id \in CompanyIds |-> 0]
    /\ companyWrites = [id \in CompanyIds |-> 0]
    /\ callsOnEnriched = 0
    /\ ScoreIdle /\ FitIdle /\ EnrichIdle /\ DetectIdle /\ ChatIdle /\ DescIdle

Next ==
    \/ ProfileSetup /\ UNCHANGED <<scoreVars, fitVars, enrichVars, detVars, chatVars, descVars>>
    \/ Detect /\ UNCHANGED <<scoreVars, fitVars, enrichVars, detVars, chatVars, descVars>>
    \/ CompanyLookup /\ UNCHANGED <<scoreVars, fitVars, enrichVars, detVars, chatVars, descVars>>
    \/ ScrapeLinks /\ UNCHANGED <<scoreVars, fitVars, enrichVars, detVars, chatVars, descVars>>
    \/ EnrichCompanyStep /\ UNCHANGED <<scoreVars, fitVars, enrichVars, detVars, chatVars, descVars>>
    \/ FitStep /\ UNCHANGED <<scoreVars, fitVars, enrichVars, detVars, chatVars, descVars>>
    \/ ChooseChannel /\ UNCHANGED <<scoreVars, fitVars, enrichVars, detVars, chatVars, descVars>>
    \/ SendApplication /\ UNCHANGED <<scoreVars, fitVars, enrichVars, detVars, chatVars, descVars>>
    \/ Finish /\ UNCHANGED <<scoreVars, fitVars, enrichVars, detVars, chatVars, descVars>>

Spec == Init /\ [][Next]_vars

\* The run as the interpreter executes it: main is one sequential thread,
\* so a step that can be taken is taken.
SpecFair == Spec /\ WF_vars(Next)

(***************************************************************************)
(* The claims about one run of orchestrator.main, checked under Spec.      *)
(***************************************************************************)

\* The loop body has ended for a message the detector took for a job: the
\* per-message history (attempts, forms, dSkipped, dApplied) is complete.
JobEnded == pc = "loop" /\ idx > 0 /\ IsJob(cur)

\* C1, as claimed: for every detected job for which fit scoring returned a
\* result, the job is dispatched if and only if score >= 30 or chance is
\* medium or high; below the gate skipped_count grows by exactly one and no
\* email is sent and no form is submitted for that message.
C1_GateDecidesDispatch ==
    (JobEnded /\ fitDone /\ ~fit.raised) =>
        LET gate == \/ fit.score >= ApplyThreshold
                    \/ (fit.chance.t = "str" /\ fit.chance.cs \in {MediumStr, HighStr})
        IN  /\ reachedStep6 <=> gate
            /\ ~gate => (dSkipped = 1 /\ attempts = <<>> /\ forms = 0)

\* C1, the state that refutes it: scoring returned score 20 and chance low,
\* and an email was sent for the job all the same.
C1_BelowGateSent ==
    /\ JobEnded /\ fitDone /\ ~fit.raised
    /\ fit.score < ApplyThreshold /\ fit.chance = StrRaw(LowStr)
    /\ dSkipped = 0
    /\ \E i \in 1 .. Len(attempts) : attempts[i].delivery = "sent"

\* C2, as claimed: for a job that passes the gate the channel is chosen in
\* strict priority order: with extracted emails only the email channel is
\* used, also when the message carries a form URL; with no emails and a form
\* URL on the message exactly one form submission is attempted; with
\* neither, nothing is dispatched and skipped_count grows by one.
C2_ChannelPriority ==
    (JobEnded /\ fitDone /\ ~fit.raised /\ ShouldApply(fit)) =>
        /\ cur.emails # <<>> => (attempts # <<>> /\ forms = 0 /\ dSkipped = 0)
        /\ (cur.emails = <<>> /\ HasFormLink(cur)) =>
               (forms = 1 /\ attempts = <<>> /\ dSkipped = 0)
        /\ (cur.emails = <<>> /\ ~HasFormLink(cur)) =>
               (forms = 0 /\ attempts = <<>> /\ dSkipped = 1)

\* C2, the state that refutes it: a job that passed the gate, with no email
\* and the link of a form in its body, ended skipped with no form submitted.
C2_FormJobSkipped ==
    /\ JobEnded /\ fitDone /\ ~fit.raised /\ ShouldApply(fit)
    /\ cur.emails = <<>> /\ HasFormLink(cur)
    /\ forms = 0 /\ dSkipped = 1

\* C3, as claimed: every message ends in exactly one terminal state: a
\* message that is no job is counted neither applied nor skipped, and every
\* detected job is counted either applied or skipped, never both and never
\* neither, also when every dispatch attempt for it fails.
C3_OneTerminalState ==
    /\ (pc = "loop" /\ idx > 0 /\ ~IsJob(cur)) => (dApplied = 0 /\ dSkipped = 0)
    /\ JobEnded => ((dApplied > 0) # (dSkipped > 0))

\* C3, the state that refutes it: every pass of the email loop raised, and
\* the job ended counted neither applied nor skipped.
C3_JobCountedNowhere ==
    /\ JobEnded /\ fitDone /\ ~fit.raised /\ fit.score >= ApplyThreshold
    /\ attempts # <<>>
    /\ \A i \in 1 .. Len(attempts) : attempts[i].delivery \in {"not_called", "raised"}
    /\ dApplied = 0 /\ dSkipped = 0

\* C4, as claimed: for a job passing the gate with extracted addresses, one
\* send attempt is made per distinct address, and no address receives two
\* sends for the same message, also when it occurs several times in the
\* body.
C4_OneSendPerAddress ==
    (JobEnded /\ fitDone /\ ~fit.raised /\ ShouldApply(fit) /\ cur.emails # <<>>) =>
        /\ Len(attempts) = Cardinality({cur.emails[i] : i \in 1 .. Len(cur.emails)})
        /\ \A i, j \in 1 .. Len(attempts) :
               (i # j) => attempts[i].to # attempts[j].to

\* C4, the state that refutes it: two emails were delivered to one address
\* for one message.
C4_SameAddressSentTwice ==
    /\ JobEnded /\ fitDone /\ ~fit.raised /\ fit.score >= ApplyThreshold
    /\ Len(attempts) = 2
    /\ attempts[1].to = attempts[2].to
    /\ attempts[1].delivery = "sent" /\ attempts[2].delivery = "sent"

\* C5, as claimed: within one run profile enrichment is attempted at most
\* once and company enrichment is attempted at most once for each company.
C5_EnrichedAtMostOncePerEntity ==
    /\ profileEnrichCalls <= 1
    /\ \A id \in CompanyIds : companyEnrichCalls[id] <= 1

\* C5, amended: within one run profile enrichment is attempted at most
\* once; enrichment is never attempted on an entity whose context is
\* non-empty, so a company's context is written at most once in the run;
\* a company whose context is still empty is enriched again at every job
\* that names it.
C5_EnrichOnlyWhileContextEmpty ==
    /\ profileEnrichCalls <= 1
    /\ callsOnEnriched = 0
    /\ \A id \in CompanyIds :
         /\ companyWrites[id] <= 1
         /\ companyWrites[id] <= companyEnrichCalls[id]
         /\ companyEnrichCalls[id] <= idx
         /\ companyWrites[id] = 1 => Truthy(companies[id].ctx)

\* C5, its case: a company named by two jobs was enriched at both, the
\* first attempt wrote nothing and the second wrote the context.
C5_CompanyEnrichedAgain ==
    \E id \in CompanyIds :
        /\ companyEnrichCalls[id] = 2 /\ companyWrites[id] = 1
        /\ Truthy(companies[id].ctx)

(***************************************************************************)
(* The claims about the enrichment operation, checked under SpecEnrich.    *)
(***************************************************************************)

\* C6, as claimed: calling the enrichment operation on an entity whose
\* context is already non-null is a no-op: the context is unchanged and
\* neither the Fetcher nor the Summarizer is called.
C6_EnrichNonNullIsNoOp ==
    (enLast.out.called /\ enLast.before # NullCtx) =>
        /\ enCtx = enLast.before
        /\ enLast.out.fetches = {}
        /\ ~enLast.out.llmCalled

\* C6, amended: the enrichment operation does not read the entity's context
\* to decide: whatever the context, it fetches every configured source and,
\* when one yields text, calls the Summarizer and overwrites the context
\* with its result. Only the orchestrator keeps from calling it, on an
\* entity whose context is non-empty; run_enrichment_once calls it on every
\* entity.
C6_OnlyOrchestratorGates ==
    /\ (enLast.caller = "orchestrator" /\ Truthy(enLast.before)) =>
           (~enLast.out.called /\ enCtx = enLast.before
            /\ enLast.out.fetches = {} /\ ~enLast.out.llmCalled)
    /\ enLast.caller = "cron" => enLast.out.called
    /\ enLast.out.called =>
           /\ enLast.out.fetches = FetchedSlots(enKind, enConfigured)
           /\ enLast.out.sent # <<>> => enLast.out.llmCalled
           /\ (enLast.out.sent # <<>> /\ enLast.answer.ok) =>
                  (enLast.out.wrote /\ enCtx = AnalyzeContent(enLast.answer.text))

\* C6, its case: run_enrichment_once enriched an entity that held a context
\* and replaced it.
C6_CronOverwrote ==
    /\ enLast.caller = "cron" /\ Truthy(enLast.before)
    /\ enLast.out.llmCalled /\ enLast.out.wrote
    /\ enCtx # enLast.before

\* C7, as claimed: when enrichment gathers no source text, it returns the
\* previously cached context, does not call the Summarizer, does not write
\* the entity's context, and does not raise.
C7_NoSourcesReturnsCached ==
    (enLast.out.called /\ enLast.out.sent = <<>>) =>
        /\ enLast.out.ret = enLast.before
        /\ ~enLast.out.llmCalled /\ ~enLast.out.wrote /\ ~enLast.out.raised
        /\ enCtx = enLast.before

\* C7, amended: when enrichment gathers no source text, it returns the
\* cached context if that is a non-empty string and the empty string
\* otherwise (also when no context was ever stored), does not call the
\* Summarizer, does not write the entity's context, and does not raise.
C7_NoSourcesReturnsCachedOrEmpty ==
    (enLast.out.called /\ enLast.out.sent = <<>>) =>
        /\ enLast.out.ret = (IF enLast.before.k \in {"json", "raw"}
                             THEN enLast.before ELSE EmptyCtx)
        /\ ~enLast.out.llmCalled /\ ~enLast.out.wrote /\ ~enLast.out.raised
        /\ enCtx = enLast.before

\* C7, its case: sources were configured, every fetch came back empty, and
\* the call on an entity with no context returned the empty string.
C7_AllFetchesEmpty ==
    /\ enLast.out.called /\ enLast.out.sent = <<>>
    /\ enLast.out.fetches # {}
    /\ enLast.before = NullCtx /\ enLast.out.ret = EmptyCtx
    /\ enCtx = NullCtx

C9_ScoreWithinRange ==
    fitPc = "returned" => fitOut.score \in ScoreMin .. ScoreMax

\* C9, its case: the model gave the score 103 and the result holds 100.
C9_OutOfRangeClamped ==
    /\ fitPc = "returned" /\ fitOut.score = ScoreMax
    /\ \E o \in FitObjs :
         /\ o.score = IntRaw(103)
         /\ fitAnswer.text = <<Val(Parsed("dict", o))>>

\* C10, as claimed: _normalize_score maps a plain integer n to n clamped
\* into [0,100]; a float, or the number found in a string, v <= 1 to the
\* fraction's percentage (0.5 gives 50, negative values give 0) and v > 1
\* to v clamped to at most 100; "85%" to 85; and a value with no parseable
\* number, or null, to 0.
C10_NormalizeAsSpecified ==
    (scoreOut # 0 - 1 /\ scoreIn.t \in {"int", "float", "str", "none"}) =>
        LET s   == RemovePercent(Strip(scoreIn.cs))
            i   == NumberSearchFrom(s, 1)
            v   == IF scoreIn.t = "float" THEN scoreIn.n
                   ELSE FloatOf(SubSeq(s, i, NumberMatchEnd(s, i) - 1))
            pct == IF v < 0 THEN 0
                   ELSE IF v <= Unit THEN (v * 100) \div Unit
                   ELSE IF v > ScoreMax * Unit THEN ScoreMax
                   ELSE v \div Unit
        IN  scoreOut =
              CASE scoreIn.t = "none" -> 0
                [] scoreIn.t = "int" ->
                     (IF scoreIn.n < ScoreMin THEN ScoreMin
                      ELSE IF scoreIn.n > ScoreMax THEN ScoreMax ELSE scoreIn.n)
                [] scoreIn.t = "str" /\ i = 0 -> 0
                [] OTHER -> pct

\* C10, the state that refutes it: the float 0.29 was normalized to 28.
C10_FractionLosesAPoint ==
    scoreIn = FloatRaw(29) /\ scoreOut = 28

(***************************************************************************)
(* Further claims about evaluate_job_fit, checked under SpecFit.           *)
(***************************************************************************)

\* C11, as claimed: the chance of every FitResult returned is one of low,
\* medium, high; whenever the model's chance is anything else (an unknown
\* string, a value that is no string, null, or absent) the returned chance
\* is derived from the normalized score: high from 75, medium from 40,
\* otherwise low.
C11_ChanceIsLowMediumHigh ==
    fitPc = "returned" =>
        LET parsed  == ExtractJsonFromText(StripText(fitAnswer.text))
            given   == parsed.o.chance
            known   == given.t = "str" /\ Lower(given.cs) \in {LowStr, MediumStr, HighStr}
            derived == IF fitOut.score >= 75 THEN HighStr
                       ELSE IF fitOut.score >= 40 THEN MediumStr ELSE LowStr
        IN  /\ fitOut.chance.t = "str"
            /\ fitOut.chance.cs \in {LowStr, MediumStr, HighStr}
            /\ (parsed.k = "dict" /\ ~known) => fitOut.chance = StrRaw(derived)

\* C11, the state that refutes it: the model gave "chance": null and the
\* FitResult returned holds None as its chance.
C11_NullChanceReturned ==
    /\ fitPc = "returned" /\ fitOut.chance = NoneRaw
    /\ ExtractJsonFromText(StripText(fitAnswer.text)).k = "dict"

\* C13, as claimed: for any response text of the model (JSON values that
\* are no objects and objects whose fields have unexpected types included)
\* evaluate_job_fit does not raise and returns a FitResult.
C13_NeverRaisesOnResponse ==
    fitAnswer.ok => fitPc # "raised"

\* C13, the state that refutes it: the response was a JSON object whose
\* reason is null (or a number), and evaluate_job_fit raised.
C13_NonStringReasonRaised ==
    /\ fitPc = "raised" /\ fitAnswer.ok
    /\ LET parsed == ExtractJsonFromText(StripText(fitAnswer.text))
       IN  parsed.k = "dict" /\ parsed.o.reason.t \in {"none", "int"}

(***************************************************************************)
(* Further claims about one run of orchestrator.main, checked under Spec.  *)
(***************************************************************************)

C14_RunReachesItsEnd ==
    <>(pc = "done" /\ idx = NumMsgs)

\* C14, the state that refutes it: the run ended with an exception at the
\* second message, whose company name gives the id of a row the table
\* already holds under another spelling of the name.
C14_RunAbortedAtLaterMessage ==
    /\ pc = "aborted" /\ idx = 2
    /\ cur.company # NoName
    /\ companies[CompanyIdOf(cur.company)].present
    /\ companies[CompanyIdOf(cur.company)].name # cur.company

\* C15: when composing or sending fails for one extracted address, every
\* remaining address of the same job is still attempted, in order; the
\* failure adds nothing to skipped_count for the message and does not end
\* the run: the loop over messages goes on.
C15_FailedPassDoesNotStopTheLoop ==
    (\E i \in 1 .. Len(attempts) : attempts[i].delivery # "sent") =>
        /\ dSkipped = 0
        /\ pc \in {"email", "loop"}
        /\ \A j \in 1 .. Len(attempts) : attempts[j].to = cur.emails[j]
        /\ pc = "email" => ei = Len(attempts) + 1 /\ ei <= Len(cur.emails)
        /\ pc = "loop" => Len(attempts) = Len(cur.emails)

\* C15, witness: the first message's first address failed in the writer,
\* its second address was attempted and sent, and a message is left.
C15_SecondAddressSentAfterFailure ==
    /\ JobEnded /\ idx < NumMsgs
    /\ Len(attempts) = 2
    /\ attempts[1].delivery = "not_called"
    /\ attempts[2].delivery = "sent"
    /\ attempts[2].to = AddrB
    /\ dSkipped = 0 /\ dApplied = 1

(***************************************************************************)
(* The claims about the job detector, checked under SpecDetect.            *)
(***************************************************************************)

\* C16: parse_job returns none if and only if the body contains none of
\* the eight keywords, letter case ignored; the orchestrator increments
\* job_count by one for a message whose body contains a keyword, and not
\* at all for any other message.
C16_NoneIffNoKeyword ==
    detPc = "done" =>
        LET SameLetter(a, b) == LowerChar(a) = LowerChar(b)
            OccursAt(kw, i) == \A k \in 1 .. Len(kw) : SameLetter(body[i + k - 1], kw[k])
            HasKeyword ==
                \E kw \in JOB_KEYWORDS :
                    \E i \in 1 .. (Len(body) - Len(kw) + 1) : OccursAt(kw, i)
        IN  /\ job_info.isNone <=> ~HasKeyword
            /\ detected = detectedBefore + (IF HasKeyword THEN 1 ELSE 0)

\* C16, witness: a keyword written in capitals inside a longer word was
\* found, and the message counted after an earlier job.
C16_CapitalKeywordCounted ==
    /\ detPc = "done"
    /\ body = <<"x", "O", "P", "E", "N", "I", "N", "G", "x">>
    /\ ~job_info.isNone
    /\ detectedBefore = 1 /\ detected = 2

\* C17: for every body containing a keyword, the returned links are
\* exactly the URL tokens and the returned emails exactly the email tokens
\* that occur in the body, from left to right: each occurs verbatim, none
\* is missing, nothing else is returned. A URL token is a run of
\* non-whitespace characters that begins with http:// or https:// (in any
\* letter case) and is not part of an earlier one; an email token is a
\* local part of letters, digits and the signs _ . - +, an "@", and a
\* domain of letters, digits and the signs _ . - that ends in a dot and a
\* run of letters or digits, and shares no character with an earlier one.
C17_ExactlyTheTokens ==
    (detPc = "done" /\ ~job_info.isNone) =>
        LET n == Len(body)
            low == [i \in 1 .. n |-> LowerChar(body[i])]
            NoSpace(i, j) == \A x \in i .. j : body[x] \notin {" ", "\n", "\t"}
            In(i, j, cls) == \A x \in i .. j : body[x] \in cls
            RunLast(i) ==
                CHOOSE e \in i .. n :
                    NoSpace(i, e) /\ (e = n \/ body[e + 1] \in {" ", "\n", "\t"})
            SchemeLen(i) ==
                IF i + 7 <= n /\ SubSeq(low, i, i + 7) = <<"h", "t", "t", "p", "s", ":", "/", "/">>
                THEN 8
                ELSE IF i + 6 <= n /\ SubSeq(low, i, i + 6) = <<"h", "t", "t", "p", ":", "/", "/">>
                THEN 7
                ELSE 0
            UrlBegins(i) ==
                /\ SchemeLen(i) > 0
                /\ i + SchemeLen(i) <= n
                /\ NoSpace(i, i + SchemeLen(i))
            UrlStarts ==
                {i \in 1 .. n :
                    /\ UrlBegins(i)
                    /\ ~\E j \in 1 .. (i - 1) : UrlBegins(j) /\ NoSpace(j, i)}
            Nth(starts, k) ==
                CHOOSE s \in starts : Cardinality({t \in starts : t < s}) = k - 1
            LocalChars == WordChars \cup {".", "-", "+"}
            DomainChars == WordChars \cup {".", "-"}
            LocalLast(i) ==
                CHOOSE a \in i .. n :
                    In(i, a, LocalChars) /\ (a = n \/ body[a + 1] \notin LocalChars)
            DomainEnds(a) ==
                {e \in (a + 4) .. n :
                    \E k \in (a + 2) .. (e - 2) :
                        /\ In(a + 2, k, DomainChars)
                        /\ body[k + 1] = "."
                        /\ In(k + 2, e, WordChars)}
            EmailLast(i) ==
                LET a == LocalLast(i)
                IN  IF a < n /\ body[a + 1] = "@" /\ DomainEnds(a) # {}
                    THEN CHOOSE e \in DomainEnds(a) : \A o \in DomainEnds(a) : o <= e
                    ELSE 0
            EmailBegins(i) ==
                /\ body[i] \in LocalChars
                /\ (i = 1 \/ body[i - 1] \notin LocalChars)
                /\ EmailLast(i) # 0
            IsEmailStart[i \in 1 .. n] ==
                /\ EmailBegins(i)
                /\ ~\E j \in 1 .. (i - 1) : IsEmailStart[j] /\ EmailLast(j) >= i
            EmailStarts == {i \in 1 .. n : IsEmailStart[i]}
        IN  /\ Len(job_info.links) = Cardinality(UrlStarts)
            /\ \A k \in 1 .. Len(job_info.links) :
                   job_info.links[k] =
                       SubSeq(body, Nth(UrlStarts, k), RunLast(Nth(UrlStarts, k)))
            /\ Len(job_info.emails) = Cardinality(EmailStarts)
            /\ \A k \in 1 .. Len(job_info.emails) :
                   job_info.emails[k] =
                       SubSeq(body, Nth(EmailStarts, k), EmailLast(Nth(EmailStarts, k)))

\* C17, witness: the body "job in+hr@a.io" holds the address in+hr@a.io,
\* and the only email returned is hr@a.io.
C17_PlusAddressCutShort ==
    /\ detPc = "done"
    /\ body = <<"j", "o", "b", " ", "i", "n", "+", "h", "r", "@", "a", ".", "i", "o">>
    /\ job_info.emails = << <<"h", "r", "@", "a", ".", "i", "o">> >>

(***************************************************************************)
(* The claims about parse_whatsapp_chat, checked under SpecParse.          *)
(***************************************************************************)

\* C18: parse_whatsapp_chat returns, in file order, exactly one message
\* per first line of a message ("date, time - sender: text"); the sender
\* and the first line of the body come from that line, and every line
\* after it up to the next first line is appended to the body after a
\* newline.
C18_OneMessagePerStartLine ==
    chatPc # "ready" =>
        LET starts == {i \in 1 .. Len(chatFile) : chatFile[i].kind = "start"}
            Nth(k) == CHOOSE s \in starts : Cardinality({t \in starts : t < s}) = k - 1
            LastOf(s) ==
                CHOOSE e \in s .. Len(chatFile) :
                    /\ \A j \in (s + 1) .. e : chatFile[j].kind = "more"
                    /\ (e = Len(chatFile) \/ chatFile[e + 1].kind = "start")
            BodyOf(s) ==
                LET Joined[j \in s .. LastOf(s)] ==
                        IF j = s THEN StripLine(chatFile[s].text)
                        ELSE Joined[j - 1] \o <<"\n">> \o StripLine(chatFile[j].text)
                IN  Joined[LastOf(s)]
        IN  /\ ~chatOut.raised
            /\ Len(chatOut.messages) = Cardinality(starts)
            /\ \A k \in 1 .. Len(chatOut.messages) :
                   /\ chatOut.messages[k].sender = chatFile[Nth(k)].sender
                   /\ chatOut.messages[k].message = BodyOf(Nth(k))

\* C18, witness: of two first lines one message was returned; the line
\* with the marker "PM" is in the body of the message before it.
C18_StartLineJoinedToMessageBefore ==
    /\ chatPc = "parsed"
    /\ Len(chatFile) = 2
    /\ chatFile[1].kind = "start" /\ chatFile[2].kind = "start"
    /\ Len(chatOut.messages) = 1
    /\ chatOut.messages[1].message =
           StripLine(chatFile[1].text) \o <<"\n">> \o Render(chatFile[2])

\* C19: a first line whose time is in 12-hour format is parsed into a
\* message without an am/pm marker and with one; the marker never makes
\* the parse fail.
C19_MarkerDoesNotFailTheParse ==
    LET starts == {i \in 1 .. Len(chatFile) : chatFile[i].kind = "start"}
        TwelveHour(l) ==
            /\ l.date = DateDMY
            /\ l.time \in {TimeMorning, TimeShortHour}
    IN  (chatPc # "ready" /\ \A i \in starts : TwelveHour(chatFile[i])) =>
            /\ ~chatOut.raised
            /\ Len(chatOut.messages) = Cardinality(starts)

\* C19, witness: the one line "24/08/25, 10:15 am - Al: hi" made the
\* parse fail.
C19_LowerCaseMarkerRaised ==
    /\ chatPc = "aborted"
    /\ Len(chatFile) = 1
    /\ chatFile[1].time = TimeMorning /\ chatFile[1].date = DateDMY
    /\ chatFile[1].marker = <<" ", "a", "m">>
    /\ chatOut.raised

\* C20: if the timestamp of any first line of a message cannot be parsed,
\* parse_whatsapp_chat fails as a whole and returns no messages, and the
\* run is aborted; no list is returned that lacks that message.
C20_BadTimestampFailsTheParse ==
    LET TimestampParsed(l) ==
            /\ MatchStart(Render(l)).matched
            /\ Strptime(MatchStart(Render(l)).date, MatchStart(Render(l)).time).ok
    IN  (/\ chatPc # "ready"
         /\ \E i \in 1 .. Len(chatFile) :
                chatFile[i].kind = "start" /\ ~TimestampParsed(chatFile[i])) =>
            /\ chatOut.raised
            /\ chatOut.messages = <<>>
            /\ chatPc = "aborted"

\* C20, witness: the one line "24/08/25, 10:15 PM - Al: hi" was parsed
\* into no message, without an error, and the run went on.
C20_UpperCaseMarkerDroppedSilently ==
    /\ chatPc = "parsed"
    /\ Len(chatFile) = 1
    /\ chatFile[1].kind = "start"
    /\ chatFile[1].marker = <<" ", "P", "M">>
    /\ ~chatOut.raised
    /\ chatOut.messages = <<>>

(***************************************************************************)
(* Further claims about one run of orchestrator.main: order, dispatch and  *)
(* counters.                                                               *)
(***************************************************************************)

C22_StoredContextKept ==
    (pc = "loop" /\ idx = 0 /\ Truthy(storedProfileCtx)) =>
        (profileEnrichCalls = 0 /\ profileCtx = storedProfileCtx)

\* C22, the state that refutes it: the stored row held a context, the
\* upsert replaced it with the unset USER_PROFILE_CONTEXT, the gate was open
\* and enrich_user_profile was called again.
C22_StoredContextReplaced ==
    /\ pc = "loop" /\ idx = 0
    /\ Truthy(storedProfileCtx)
    /\ profileEnrichCalls = 1

(***************************************************************************)
(* A further claim about the enrichment operation, checked under           *)
(* SpecEnrich.                                                             *)
(***************************************************************************)

C24_DescriptionBounded ==
    descPc = "sent" => promptJobLen <= SourceTextLimit

\* C24, the state that refutes it: a message longer than the limit, with a
\* link whose page was cut at max_chars, went into the request whole.
C24_WholeDescriptionSent ==
    /\ descPc = "sent"
    /\ messageLen > SourceTextLimit
    /\ \E i \in 1 .. Len(linkPages) : linkPages[i].len > ScrapeMaxChars
    /\ promptJobLen = job_description
    /\ promptJobLen > messageLen + ScrapeMaxChars

(***************************************************************************)
(* Further claims about the dispatch of one run, checked under Spec.       *)
(***************************************************************************)

\* C25, as claimed: no email is sent and no form is submitted for a job
\* unless fit scoring returned a FitResult for it that satisfies the apply
\* gate; when the scoring call ends with an exception the job is not
\* applied to.
C25_NoDispatchWithoutPassingFit ==
    (pc \in {"loop", "email"} /\ idx > 0 /\ IsJob(cur)
       /\ (forms > 0 \/ \E i \in 1 .. Len(attempts) : attempts[i].delivery = "sent")) =>
        (fitDone /\ ~fit.raised /\ ShouldApply(fit))

\* C25, the state that refutes it: evaluate_job_fit raised (the request to
\* the model failed) and an email was sent for the job.
C25_SentAfterScoringFailed ==
    /\ JobEnded /\ fitDone /\ fit.raised
    /\ should_apply
    /\ \E i \in 1 .. Len(attempts) : attempts[i].delivery = "sent"
    /\ dApplied >= 1

\* C26, as claimed: applied_count is incremented only for a dispatch that
\* succeeded: what a message added to it is no more than the emails that
\* were delivered plus the forms that were submitted for the message.
C26_AppliedCountsSuccessOnly ==
    (idx > 0 /\ IsJob(cur)) =>
        dApplied <= forms +
            Cardinality({i \in 1 .. Len(attempts) : attempts[i].delivery = "sent"})

\* C26, the state that refutes it: the only send of a job failed at the
\* SMTP server, and the job was counted as applied.
C26_FailedDeliveryCounted ==
    /\ JobEnded
    /\ Len(attempts) = 1 /\ attempts[1].delivery = "smtp_failed"
    /\ forms = 0
    /\ dApplied = 1 /\ applied_count >= 1

\* C27, as claimed: the lookup-or-create of the company record never tries
\* to insert a company_id the store already holds: a name whose derived id
\* is in the store resolves to that record, and the run is not aborted.
C27_DerivedIdResolvesToItsRecord ==
    /\ pc # "aborted"
    /\ (pc \in {"scrape", "enrich", "fit"} /\ cur.company # NoName) =>
           company = CompanyIdOf(cur.company)

\* C27, the state that refutes it: the store held a row under the name
\* "a_b" from an earlier run, the first job of the run named the company
\* "A b", the lookup by name found nothing, and the INSERT of the id
\* company_a_b aborted the run.
C27_InsertOfExistingIdAborted ==
    /\ pc = "aborted" /\ idx = 1
    /\ cur.company = <<"A", " ", "b">>
    /\ FindByName(companies, cur.company) = {}
    /\ companies[CompanyIdOf(cur.company)].present
    /\ companies[CompanyIdOf(cur.company)].name = <<"a", "_", "b">>

\* C28, as claimed: a message of the parser whose body holds the URL of a
\* form and no email address, and whose fit passes the gate, is dispatched
\* through the form channel: one form submission, and the message is not
\* counted as skipped.
C28_FormLinkDispatchedByForm ==
    (JobEnded /\ fitDone /\ ~fit.raised /\ ShouldApply(fit)
       /\ cur.emails = <<>> /\ HasFormLink(cur)) =>
        (cur.form_url # NoFormUrl /\ forms = 1 /\ dSkipped = 0)

\* C28, the state that refutes it: the body held the link of a Google Form
\* and no address, scoring gave 85 and high, the message carried no
\* form_url key, and the job was counted as skipped for want of an
\* application method.
C28_FormLinkCountedSkipped ==
    /\ JobEnded /\ fitDone /\ ~fit.raised
    /\ fit.score = 85 /\ fit.chance = StrRaw(HighStr)
    /\ cur.emails = <<>> /\ cur.links = <<FormLink>>
    /\ cur.form_url = NoFormUrl
    /\ reachedStep6 /\ forms = 0 /\ attempts = <<>>
    /\ dSkipped = 1 /\ skipped_count >= 1

\* C29: at every point of a run skipped_count <= job_count <= the number
\* of messages taken so far; no counter ever decreases; one message adds at
\* most one to job_count (when it is taken) and at most one to
\* skipped_count, and a message counted as skipped adds nothing to
\* applied_count.
C29_CountersConsistent ==
    /\ [](/\ skipped_count <= job_count /\ job_count <= idx
          /\ dSkipped <= 1
          /\ dSkipped = 1 => dApplied = 0)
    /\ [][/\ job_count' >= job_count /\ job_count' <= job_count + 1
          /\ job_count' # job_count => idx' = idx + 1
          /\ skipped_count' >= skipped_count
          /\ skipped_count' <= skipped_count + 1
          /\ applied_count' >= applied_count]_vars

\* C29, its case: two messages were taken, both were jobs, one was applied
\* to and the other, below the gate, was counted as skipped.
C29_OneAppliedOneSkipped ==
    /\ pc = "loop" /\ idx = 2 /\ job_count = 2
    /\ skipped_count = 1 /\ applied_count >= 1
    /\ dSkipped = 1 /\ dApplied = 0

(***************************************************************************)
(* A further claim about _normalize_score, checked under SpecScore.        *)
(***************************************************************************)

\* C30, as claimed: score normalization does not depend on how a number is
\* encoded: for every integer n in [0,100], _normalize_score gives the
\* same result for the integer n, the float n.0 and the string of n.
C30_SameResultForEveryEncoding ==
    (scoreOut # 0 - 1 /\ scoreIn.t = "int" /\ scoreIn.n \in 0 .. 100) =>
        LET n == scoreIn.n
            DigitChar(d) == <<"0", "1", "2", "3", "4", "5", "6", "7", "8", "9">>[d + 1]
            str == IF n < 10 THEN <<DigitChar(n)>>
                   ELSE IF n < 100 THEN <<DigitChar(n \div 10), DigitChar(n % 10)>>
                   ELSE <<"1", "0", "0">>
        IN  /\ scoreOut = NormalizeScore(FloatRaw(100 * n))
            /\ scoreOut = NormalizeScore(StrRaw(str))

\* C30, the state that refutes it: the integer 1 gave 1, while the float
\* 1.0 and the string "1" give 100.
C30_OneIsOneOrAHundred ==
    /\ scoreIn = IntRaw(1) /\ scoreOut = 1
    /\ NormalizeScore(FloatRaw(100)) = 100
    /\ NormalizeScore(StrRaw(<<"1">>)) = 100

====
